---- MODULE Spec2Model ----
(***************************************************************************)
(* A model of the time-viz line chart engine (src/src/d3-time-viz.ts):     *)
(* the chart closure created by createTimeVizChart, its fluent setters,    *)
(* one render pass (validateSetup, scales, axes, grids, series, legend,    *)
(* listeners) against an SVG drawing surface, and the pointer handlers;    *)
(* and of the <time-viz> component around it (src/src/time-viz.ts): its    *)
(* config, its series and date filters, and its update.                    *)
(*                                                                         *)
(* Time values are Dates a few milliseconds after the epoch, so that the   *)
(* d3 time scale's nice() and invert() can be computed exactly on small    *)
(* integers.  Pixel coordinates are integers (positions are floored).      *)
(***************************************************************************)
EXTENDS Integers, Sequences, FiniteSets, TLC

(***************************************************************************)
(* Bounds of the model.                                                    *)
(***************************************************************************)
MaxRows == 3
MaxSeries == 2
\* pending timers left behind by chart closures that were replaced
MaxOrphans == 1

(***************************************************************************)
(* JavaScript values.  A value is a record [k, n]: k is its type tag       *)
(* ("num", "date", "undef", "nan") and n its magnitude (the number, or the  *)
(* Date's epoch milliseconds).                                             *)
(***************************************************************************)
Num(n) == [n |-> n, k |-> "num"]
DateV(n) == [n |-> n, k |-> "date"]
Undef == [n |-> 0, k |-> "undef"]
NaNV == [n |-> 0, k |-> "nan"]

\* typeof v === "number"
IsNumberType(v) == v.k \in {"num", "nan"}
\* v instanceof Date
IsDate(v) == v.k = "date"
\* a value that coerces to a finite number: a number or a Date
IsFinite(v) == v.k \in {"num", "date"}

Min(a, b) == IF a <= b THEN a ELSE b
Max(a, b) == IF a >= b THEN a ELSE b
Abs(a) == IF a < 0 THEN -a ELSE a
\* floor and ceiling of a / b for b > 0
FloorDiv(a, b) == a \div b
CeilDiv(a, b) == -((-a) \div b)
\* truncation toward zero of a / b for b > 0 (Date's TimeClip, Math.trunc)
TruncDiv(a, b) == IF a >= 0 THEN a \div b ELSE -((-a) \div b)

(***************************************************************************)
(* d3.extent over a sequence of values: undefined, null and NaN are        *)
(* skipped (value != null, value >= value); the first comparable value     *)
(* seeds min and max; later values replace them only on strict < and >.    *)
(* A Date and a number compare by the Date's time value.  The result is    *)
(* the pair of VALUES (with their type), or <<Undef, Undef>> when nothing   *)
(* compares.                                                                *)
(***************************************************************************)
Comparable(v) == v.k \in {"num", "date"}
Less(u, v) == u.n < v.n

RECURSIVE ExtentFrom(_, _, _, _)
ExtentFrom(vals, i, lo, hi) ==
    IF i > Len(vals) THEN <<lo, hi>>
    ELSE LET v == vals[i] IN
         IF ~Comparable(v) THEN ExtentFrom(vals, i + 1, lo, hi)
         ELSE IF lo.k = "undef" THEN ExtentFrom(vals, i + 1, v, v)
         ELSE ExtentFrom(vals, i + 1,
                         IF Less(v, lo) THEN v ELSE lo,
                         IF Less(hi, v) THEN v ELSE hi)

Extent(vals) == ExtentFrom(vals, 1, Undef, Undef)

(***************************************************************************)
(* d3.tickStep(start, stop, count) for 1 <= count <= 10 on a span of fewer *)
(* than 1000 units, times ten to stay in the integers (the result is       *)
(* 10 * step): step1 = 10^floor(log10(span / count)), scaled by 10, 5 or 2 *)
(* when the error span / count / step1 reaches sqrt(50), sqrt(10) or       *)
(* sqrt(2).  A span of 0 gives step 0.                                     *)
(***************************************************************************)
TickStep10(span, count) ==
    IF span <= 0 THEN 0
    ELSE LET s == 10 * span
             p10 == IF s < 10 * count THEN 1
                    ELSE IF s < 100 * count THEN 10
                    ELSE IF s < 1000 * count THEN 100
                    ELSE 1000
             \* error = s / (count * p10); compare the squares
             e2 == s * s
             u2 == count * count * p10 * p10
         IN IF e2 >= 50 * u2 THEN 10 * p10
            ELSE IF e2 >= 10 * u2 THEN 5 * p10
            ELSE IF e2 >= 2 * u2 THEN 2 * p10
            ELSE p10

\* the multiples of step (> 0) from lo to hi, ascending
RECURSIVE MultiplesFrom(_, _, _)
MultiplesFrom(v, hi, step) ==
    IF v > hi THEN <<>> ELSE <<v>> \o MultiplesFrom(v + step, hi, step)

Multiples(lo, hi, step) == MultiplesFrom(CeilDiv(lo, step) * step, hi, step)

(***************************************************************************)
(* scaleTime(): the tick interval for a span below ten seconds is          *)
(* d3.timeMillisecond.every(max(tickStep(start, stop, count), 1)).         *)
(* nice() floors and ceils the domain to the interval for count = 10;      *)
(* ticks(count) are the interval's boundaries inside the domain.           *)
(***************************************************************************)
TimeInterval(lo, hi, count) ==
    LET s10 == TickStep10(hi - lo, count) IN
    IF s10 <= 10 THEN 1 ELSE s10 \div 10

TimeNice(lo, hi) ==
    LET k == TimeInterval(lo, hi, 10) IN
    <<FloorDiv(lo, k) * k, CeilDiv(hi, k) * k>>

TimeTicks(lo, hi, count) == Multiples(lo, hi, TimeInterval(lo, hi, count))

(***************************************************************************)
(* scaleLinear() on an integer domain.  nice(): tickIncrement is an        *)
(* integer step when the step is >= 1 and the domain is floored and ceiled *)
(* to it, repeated until the step is stable; a fractional step leaves an   *)
(* integer domain where it is.  ticks(count): the multiples of the step    *)
(* inside the domain, in tenths so that fractional ticks stay integers; a  *)
(* domain of zero width has the one tick at its value.                     *)
(***************************************************************************)
RECURSIVE LinearNiceIter(_, _, _, _)
LinearNiceIter(lo, hi, prestep, iter) ==
    LET s10 == TickStep10(hi - lo, 10) IN
    IF iter = 0 \/ s10 = prestep \/ s10 < 10 THEN <<lo, hi>>
    ELSE LET k == s10 \div 10 IN
         LinearNiceIter(FloorDiv(lo, k) * k, CeilDiv(hi, k) * k, s10, iter - 1)

LinearNice(lo, hi) == LinearNiceIter(lo, hi, -1, 10)

LinearTicks10(lo, hi, count) ==
    IF count <= 0 THEN <<>>
    ELSE IF lo = hi THEN <<10 * lo>>
    ELSE Multiples(10 * lo, 10 * hi, TickStep10(hi - lo, count))

(***************************************************************************)
(* A continuous scale [d0, d1] -> [r0, r1] (d3 scaleTime / scaleLinear).   *)
(* Mapping a value that is no finite number gives NaN (ok = FALSE); a      *)
(* domain of zero width maps every value to the middle of the range.       *)
(***************************************************************************)
NoScale == [def |-> FALSE, d0 |-> 0, d1 |-> 0, r0 |-> 0, r1 |-> 0]
MkScale(dom, r0, r1) == [def |-> TRUE, d0 |-> dom[1], d1 |-> dom[2], r0 |-> r0, r1 |-> r1]

ScalePx(s, n) ==
    IF s.d1 = s.d0 THEN FloorDiv(s.r0 + s.r1, 2)
    ELSE s.r0 + FloorDiv((n - s.d0) * (s.r1 - s.r0), s.d1 - s.d0)

\* invert of the time scale: a Date, whose time value is truncated to whole ms
ScaleInvert(s, px) ==
    IF s.r1 = s.r0 THEN s.d0
    ELSE s.d0 + TruncDiv((px - s.r0) * (s.d1 - s.d0), s.r1 - s.r0)

\* scale(v) for a JavaScript value: [px, ok], ok = FALSE for NaN
ScaleVal(s, v) ==
    IF IsFinite(v) THEN [px |-> ScalePx(s, v.n), ok |-> TRUE]
    ELSE [px |-> 0, ok |-> FALSE]

(***************************************************************************)
(* d3.bisector(d => d).center(a, x): left() is the binary search for the   *)
(* first index in [lo, hi) whose value is not below x; center() searches   *)
(* [0, n - 1) and steps back one index when the left neighbour is strictly *)
(* closer: i > lo && a[i-1] - x > -(a[i] - x).  Indices here are 0-based   *)
(* as in the source; a[i] of the source is a[i + 1] of the sequence.  A     *)
(* comparison or difference with a value that is no number is NaN: false.  *)
(***************************************************************************)
RECURSIVE BisectLeft(_, _, _, _)
BisectLeft(a, x, lo, hi) ==
    IF lo < hi
    THEN LET mid == (lo + hi) \div 2 IN
         IF IsFinite(a[mid + 1]) /\ a[mid + 1].n < x
         THEN BisectLeft(a, x, mid + 1, hi)
         ELSE BisectLeft(a, x, lo, mid)
    ELSE lo

BisectCenter(a, x) ==
    LET i == BisectLeft(a, x, 0, Len(a) - 1) IN
    IF /\ i > 0
       /\ IsFinite(a[i]) /\ IsFinite(a[i + 1])
       /\ (a[i].n - x) > -(a[i + 1].n - x)
    THEN i - 1 ELSE i

(***************************************************************************)
(* Inputs.  A data row has a time column t and two value columns a and b;  *)
(* an accessor is the name of the column it reads.  Row i of the base      *)
(* dataset is at TimeOf(i) ms, strictly increasing, with gaps of even      *)
(* width so that a pointer can be exactly midway between two rows.         *)
(***************************************************************************)
TimeOf(i) == 2 * (i - 1) * (i - 1) + 1
ValA(i) == 80 + 20 * ((i + 1) % 3)
ValB(i) == 50 + 10 * (i % 3)
Row(i) == [a |-> Num(ValA(i)), b |-> Num(ValB(i)), t |-> DateV(TimeOf(i))]

GoodData(n) == [i \in 1..n |-> Row(i)]
\* the base dataset with one cell replaced
WithTime(p, v) == [i \in 1..MaxRows |-> IF i = p THEN [Row(i) EXCEPT !.t = v] ELSE Row(i)]
WithA(p, v) == [i \in 1..MaxRows |-> IF i = p THEN [Row(i) EXCEPT !.a = v] ELSE Row(i)]
\* every time value a number instead of a Date; every value of column a missing
NumericTimes == [i \in 1..MaxRows |-> [Row(i) EXCEPT !.t = Num(TimeOf(i))]]
MissingA == [i \in 1..MaxRows |-> [Row(i) EXCEPT !.a = Undef]]

Read(row, accessor) ==
    CASE accessor = "t" -> row.t
      [] accessor = "a" -> row.a
      [] accessor = "b" -> row.b

(***************************************************************************)
(* Series specs {accessor, label, color?} (types.ts).  color 0 is "no color *)
(* given"; colors 1..PaletteSize are the ordinal scale's range             *)
(* (schemeCategory10), larger numbers are colors given in the spec.        *)
(* NotFn is an accessor that is not callable, NoLabel a missing label.     *)
(***************************************************************************)
PaletteSize == 10
NotFn == "notfn"
NoLabel == "undefined"
SeriesConfig(label, accessor, color) == [accessor |-> accessor, label |-> label, color |-> color]
SA == SeriesConfig("A", "a", 0)
SB == SeriesConfig("B", "b", 0)
SC == SeriesConfig("C", "a", 11)
SBadFn == SeriesConfig("A", NotFn, 0)
SNoLabel == SeriesConfig(NoLabel, "a", 0)
\* a second spec under the label of SA
SDup == SeriesConfig("A", "b", 0)

SeqsUpTo(S, n) == UNION {[1..k -> S] : k \in 0..n}
DistinctLabels(f) == \A i, j \in 1..Len(f) : f[i].label = f[j].label => i = j

(***************************************************************************)
(* State.                                                                  *)
(*   the chart closure (createTimeVizChart): series, data, xSerie,         *)
(*     colorScale, innerWidth, innerHeight, xScale, yScale, lastCursorIdx; *)
(*     series and data are <<>> while undefined (every reader treats an    *)
(*     undefined and an empty array alike and no setter stores a           *)
(*     non-array);                                                         *)
(*   the ordinal color scale's domain: colorDomain;                        *)
(*   the drawing surface: its size (bounding client rect), the viewBox     *)
(*     attribute, its children xAxis, yAxis, gridsG/xGrid/yGrid,           *)
(*     seriesG/groups/cursorLine, legendG/legend, and whether the chart's  *)
(*     pointer listeners are attached (listening);                         *)
(*   outcome: how the last call of chart(selection) ended;                 *)
(*   passes: the completed passes since an input of the render pass        *)
(*     (configuration, surface size) last changed: "changed" (none yet),   *)
(*     "once", or "again" (two or more);                                   *)
(*   the pointermove listener's throttle: sinceLastMove is                 *)
(*     Date.now() - lastMove, counted up to throttleMs + 1 (all the        *)
(*     listener asks is whether it exceeds throttleMs); handledAgo is the  *)
(*     time since the attached listener last handled a move (<<>> before   *)
(*     it has, else <<ms>>), counted alike;                                *)
(*   the tooltip handlers: lastTooltipDatum (0 for null, else the identity *)
(*     of a datum object), hideTooltipTimeout (0 for null, else a timer    *)
(*     id), the timers pending in the event loop (id, time left, and       *)
(*     whether a closure that was replaced since scheduled it), whether    *)
(*     the tooltip is shown, and the call the last hover handler or timer  *)
(*     made on it (tooltipCall);                                           *)
(*   the pointer: whether its last move event was inside the plotting      *)
(*     bounds (pointerAt), and the series-group whose marker it is over    *)
(*     (hovered, 0 for none);                                              *)
(*   the closure's options: isStatic, transitionTime (ms), xAxisLabel and  *)
(*     yAxisLabel; labels is the surface's g.labels with the axis titles;  *)
(*   tooltip: the tooltip collaborator the closure holds ("undefined"       *)
(*     before one is set); a handler that calls a method of an undefined   *)
(*     tooltip throws, and tooltipCall is then "throw".                     *)
(*   the <time-viz> component around the chart: its state _config, _data,  *)
(*     _selectedSeries ("All" or a label), _hiddenSeries, _startDate,      *)
(*     _endDate, _minDate, _maxDate (a date string is <<day>>, the empty   *)
(*     string <<>>), the reactive properties changed since its last update *)
(*     (changedProperties), the offset of the local time zone (tz), and    *)
(*     the legend entry the last click went to (clickedItem).              *)
(***************************************************************************)
VARIABLES series, data, xSerie, colorScale, colorDomain,
          innerWidth, innerHeight, xScale, yScale, lastCursorIdx,
          size, viewBox, xAxis, yAxis, gridsG, xGrid, yGrid,
          seriesG, groups, cursorLine, legendG, legend, listening,
          outcome, passes,
          sinceLastMove, handledAgo,
          lastTooltipDatum, hideTooltipTimeout, timers, tooltipShown, tooltipCall,
          pointerAt, hovered,
          isStatic, transitionTime, xAxisLabel, yAxisLabel, labels, tooltip,
          _config, _data, _selectedSeries, _hiddenSeries, _startDate, _endDate,
          _minDate, _maxDate, changedProperties, tz, clickedItem

\* the options of the closure beside its four required inputs
\* the state of the component
dateVars == <<_startDate, _endDate, _minDate, _maxDate>>
compVars == <<_config, _data, _selectedSeries, _hiddenSeries, dateVars,
              changedProperties, tz, clickedItem>>
optVars == <<isStatic, transitionTime, xAxisLabel, yAxisLabel>>
confVars == <<series, data, xSerie, colorScale, optVars, compVars>>
closureVars == <<innerWidth, innerHeight, xScale, yScale, lastCursorIdx>>
axisVars == <<xAxis, yAxis, gridsG, xGrid, yGrid, labels>>
seriesVars == <<seriesG, groups, cursorLine>>
legendVars == <<legendG, legend>>
\* the attributes and children of the drawing surface
surface == <<viewBox, axisVars, seriesVars, legendVars>>
throttleVars == <<sinceLastMove, handledAgo>>
tooltipVars == <<lastTooltipDatum, hideTooltipTimeout, timers, tooltipShown, tooltipCall,
                 tooltip>>
pointerVars == <<pointerAt, hovered>>
\* what the handlers of one chart closure keep between events
handlerVars == <<lastCursorIdx, lastTooltipDatum, hideTooltipTimeout, timers, tooltip>>
hoverVars == <<throttleVars, tooltipVars, pointerVars>>
vars == <<confVars, colorDomain, closureVars, size, surface, listening, outcome, passes,
          hoverVars>>

\* defaultConfig
MarginTop == 30
MarginRight == 40
MarginBottom == 30
MarginLeft == 40
xTicks == 5
yTicks == 5
\* lastCursorIdx = null
NoIdx == -1
\* width of one legend item
itemWidth == 100
throttleMs == 16
TOOLTIP_HIDE_DELAY == 40
\* lastMove = 0: Date.now() - lastMove exceeds throttleMs
LongAgo == throttleMs + 1

\* the k smallest element ids not in use
RECURSIVE FreshFrom(_, _, _)
FreshFrom(used, k, n) ==
    IF k = 0 THEN <<>>
    ELSE IF n \in used THEN FreshFrom(used, k, n + 1)
    ELSE <<n>> \o FreshFrom(used, k - 1, n + 1)

FreshIds(used, k) == FreshFrom(used, k, 1)

(***************************************************************************)
(* The ordinal color scale: colorScale(label) for a label not yet in the   *)
(* domain appends it to the domain; the color is the range entry at the    *)
(* label's domain index modulo the range length.                           *)
(***************************************************************************)
RECURSIVE IndexOf(_, _, _)
IndexOf(seq, x, i) ==
    IF i > Len(seq) THEN 0 ELSE IF seq[i] = x THEN i ELSE IndexOf(seq, x, i + 1)

\* a variant of the implicit domain that puts a new label first
DomainWithFront(dom, label) == IF IndexOf(dom, label, 1) = 0 THEN <<label>> \o dom ELSE dom

DomainWith(dom, label) == IF IndexOf(dom, label, 1) = 0 THEN Append(dom, label) ELSE dom
ScaleColor(dom, label) == ((IndexOf(DomainWith(dom, label), label, 1) - 1) % PaletteSize) + 1

\* color || colorScale(label), over the specs in order: the domain afterwards
RECURSIVE DomainAfter(_, _, _)
DomainAfter(dom, specs, i) ==
    IF i > Len(specs) THEN dom
    ELSE DomainAfter(IF specs[i].color # 0 THEN dom ELSE DomainWith(dom, specs[i].label),
                     specs, i + 1)

\* color || colorScale(label), for a domain that holds every label colored
\* before this one
ColorOf(dom, spec) ==
    IF spec.color # 0 THEN spec.color ELSE ScaleColor(dom, spec.label)

(***************************************************************************)
(* validateSetup: the first failing check, or "ok".                        *)
(***************************************************************************)
\* A variant of validateSetup that looks at the data before the series; C8
\* tells the two apart.
validateSetupDataFirst(sr) ==
    IF Len(data) = 0 THEN "data"
    ELSE IF Len(sr) = 0 THEN "series"
    ELSE IF xSerie = "undefined" THEN "xSerie"
    ELSE IF colorScale = "undefined" THEN "colorScale"
    ELSE "ok"

validateSetup(sr) ==
    IF Len(sr) = 0 THEN "series"
    ELSE IF Len(data) = 0 THEN "data"
    ELSE IF xSerie = "undefined" THEN "xSerie"
    ELSE IF colorScale = "undefined" THEN "colorScale"
    ELSE "ok"

(***************************************************************************)
(* The scales of one render pass (chart, lines 583-613).                   *)
(***************************************************************************)
xVals == [i \in 1..Len(data) |-> Read(data[i], xSerie)]
xExtent == Extent(xVals)
xValsOk == LET e == xExtent IN IsDate(e[1]) /\ IsDate(e[2])

\* the values of the first series alone
yValsPerSeries(sr) ==
    [k \in 1..Len(data) |-> Read(data[k], sr[1].accessor)]

\* data.flatMap(d => series.map(({accessor}) => accessor(d)))
yVals(sr) ==
    [k \in 1..(Len(data) * Len(sr)) |->
        Read(data[((k - 1) \div Len(sr)) + 1],
             sr[((k - 1) % Len(sr)) + 1].accessor)]
\* calling an accessor that is not callable throws a TypeError
yValsThrows(sr) == \E i \in 1..Len(sr) : sr[i].accessor = NotFn
yExtent(sr) == Extent(yVals(sr))
yValsOk(sr) == LET e == yExtent(sr) IN IsNumberType(e[1]) /\ IsNumberType(e[2])

NewInnerWidth == size[1] - (MarginLeft + MarginRight)
NewInnerHeight == size[2] - (MarginTop + MarginBottom)

NewXScale ==
    LET e == xExtent IN
    MkScale(TimeNice(e[1].n, e[2].n), MarginLeft, NewInnerWidth + MarginLeft)
NewYScale(sr) ==
    LET e == yExtent(sr) IN
    MkScale(LinearNice(e[1].n, e[2].n), NewInnerHeight + MarginTop, MarginTop)

(***************************************************************************)
(* renderXAxis / renderYAxis: one g per axis (join on [null]), moved to    *)
(* its place, its ticks replaced by those of the scale.                    *)
(* renderXGrid / renderYGrid: one g.grids, one line per tick of the scale, *)
(* spanning the other scale's domain.                                      *)
(***************************************************************************)
renderXAxis(xs, ih) ==
    LET ticks == TimeTicks(xs.d0, xs.d1, xTicks) IN
    <<[ticks |-> [i \in DOMAIN ticks |-> ScalePx(xs, ticks[i])],
       at |-> ih + MarginTop]>>

\* a tick in tenths: its pixel position
ScalePx10(s, n10) ==
    IF s.d1 = s.d0 THEN FloorDiv(s.r0 + s.r1, 2)
    ELSE s.r0 + FloorDiv((n10 - 10 * s.d0) * (s.r1 - s.r0), 10 * (s.d1 - s.d0))

renderYAxis(ys) ==
    LET ticks == LinearTicks10(ys.d0, ys.d1, yTicks) IN
    <<[ticks |-> [i \in DOMAIN ticks |-> ScalePx10(ys, ticks[i])],
       at |-> MarginLeft]>>

renderXGrid(xs, ys) ==
    LET ticks == TimeTicks(xs.d0, xs.d1, xTicks) IN
    [i \in DOMAIN ticks |->
        LET x == ScalePx(xs, ticks[i]) IN
        [x1 |-> x, y1 |-> ScalePx(ys, ys.d0), x2 |-> x, y2 |-> ScalePx(ys, ys.d1)]]

renderYGrid(xs, ys) ==
    LET ticks == LinearTicks10(ys.d0, ys.d1, yTicks) IN
    [i \in DOMAIN ticks |->
        LET y == ScalePx10(ys, ticks[i]) IN
        [x1 |-> ScalePx(xs, xs.d0), y1 |-> y, x2 |-> ScalePx(xs, xs.d1), y2 |-> y]]

(***************************************************************************)
(* renderSeries.  A g.series-group is [id, label, path, point]: label is   *)
(* its data-label attribute, path and point hold its path.serie and its    *)
(* cursor point (none or one).  A path is [id, label, d, stroke,           *)
(* dasharray, dashoffset, trans, to, dur, prev]: d is the list of its      *)
(* points, dasharray / dashoffset are "none", "len" (the path's total      *)
(* length), "part" (between the length and 0) or "zero", trans is the      *)
(* newest transition scheduled on it ("none", "drawin", "morph"), to the   *)
(* attribute values a morph ends at and dur its duration.  A transition    *)
(* starts in the animation frame after the pass that scheduled it, and     *)
(* only then interrupts the one before it: prev is <<duration>> for a      *)
(* draw-in that a later pass has superseded and that has yet to tick once  *)
(* more, else <<>>.  (A superseded morph ticks once more too; what it      *)
(* writes to d and stroke is written again by the morph after it.)         *)
(***************************************************************************)
\* line(coordinates): the points of the path
Line(xs, ys, accessor) ==
    [i \in 1..Len(data) |->
        LET x == ScaleVal(xs, Read(data[i], xSerie))
            y == ScaleVal(ys, Read(data[i], accessor))
        IN [ok |-> x.ok /\ y.ok, x |-> x.px, y |-> y.px]]

NoTarget == [d |-> <<>>, stroke |-> 0]

\* enter: append a path, set its attributes, start the draw-in
\* transition.duration(transitionTime): a transition whose duration is NaN
\* ends on its first tick (elapsed < NaN is false), as one of duration 0
Duration(time) == IF time.k = "num" THEN time.n ELSE 0

EnterPath(id, label, d, stroke) ==
    [label |-> label, d |-> d, stroke |-> stroke, id |-> id,
     dasharray |-> "len", dashoffset |-> "len", trans |-> "drawin", to |-> NoTarget,
     dur |-> Duration(transitionTime), prev |-> <<>>]

\* a variant of the update that leaves the dash attributes as they are
UpdatePathKeepDash(path, d, stroke) ==
    [path EXCEPT !.trans = "morph", !.to = [d |-> d, stroke |-> stroke],
                 !.dur = Duration(transitionTime),
                 !.prev = IF path.trans = "drawin" THEN <<path.dur>> ELSE path.prev]

\* update: clear the dash attributes, then transition stroke and d
UpdatePath(path, d, stroke) ==
    [path EXCEPT !.dasharray = "none", !.dashoffset = "none",
                 !.trans = "morph", !.to = [d |-> d, stroke |-> stroke],
                 !.dur = Duration(transitionTime),
                 !.prev = IF path.trans = "drawin" THEN <<path.dur>> ELSE path.prev]

GroupIds(gs) == {gs[i].id : i \in DOMAIN gs}
PathIds(gs) == {gs[i].path[1].id : i \in {j \in DOMAIN gs : gs[j].path # <<>>}}
PointIds(gs) == {gs[i].point[1].id : i \in {j \in DOMAIN gs : gs[j].point # <<>>}}

(***************************************************************************)
(* selectAll(".series-group").data(series).join("g"): no key function, so  *)
(* datum i is bound to the i-th existing group; data beyond the existing   *)
(* groups enter as new groups, groups beyond the data exit.                *)
(***************************************************************************)
JoinGroups(gs, specs) ==
    LET fresh == FreshIds(GroupIds(gs), Len(specs)) IN
    [i \in 1..Len(specs) |->
        IF i <= Len(gs)
        THEN [gs[i] EXCEPT !.label = specs[i].label]
        ELSE [label |-> specs[i].label, id |-> fresh[i - Len(gs)],
              path |-> <<>>, point |-> <<>>]]

\* a variant of renderSeries that leaves the groups beyond the data in place
renderSeriesNoExit(gs, sr, xs, ys, dom) ==
    LET joined == JoinGroups(gs, sr)
        fresh == FreshIds(PathIds(gs), Len(sr))
        \* the entering paths, counted up to group i
        rank(i) == Cardinality({j \in 1..i : joined[j].path = <<>>})
    IN [i \in 1..Len(sr) |->
           LET d == Line(xs, ys, sr[i].accessor)
               stroke == ColorOf(dom, sr[i])
           IN [joined[i] EXCEPT !.path =
                  IF joined[i].path = <<>>
                  THEN <<EnterPath(fresh[rank(i)], sr[i].label, d, stroke)>>
                  ELSE <<UpdatePath(joined[i].path[1], d, stroke)>>]]
       \o SubSeq(gs, Len(sr) + 1, Len(gs))

renderSeries(gs, sr, xs, ys, dom) ==
    LET joined == JoinGroups(gs, sr)
        fresh == FreshIds(PathIds(gs), Len(sr))
        \* the entering paths, counted up to group i
        rank(i) == Cardinality({j \in 1..i : joined[j].path = <<>>})
    IN [i \in 1..Len(sr) |->
           LET d == Line(xs, ys, sr[i].accessor)
               stroke == ColorOf(dom, sr[i])
           IN [joined[i] EXCEPT !.path =
                  IF joined[i].path = <<>>
                  THEN <<EnterPath(fresh[rank(i)], sr[i].label, d, stroke)>>
                  ELSE <<UpdatePath(joined[i].path[1], d, stroke)>>]]

(***************************************************************************)
(* renderLegend: one g.legend-item per series entry, joined by index; its  *)
(* data-label, position, swatch fill and text are set on every pass.       *)
(***************************************************************************)
LegendIds(ls) == {ls[i].id : i \in DOMAIN ls}

\* A faulty variant of renderLegend that appends an item per series entry
\* without joining them to the items on the surface; C4 tells the two apart.
renderLegendAppend(ls, sr, dom) ==
    LET fresh == FreshIds(LegendIds(ls), Len(sr)) IN
    ls \o [i \in 1..Len(sr) |->
              [label |-> sr[i].label,
               id |-> fresh[i],
               tx |-> (i - 1) * itemWidth,
               fill |-> ColorOf(dom, sr[i]),
               text |-> sr[i].label]]

renderLegend(ls, sr, dom) ==
    LET fresh == FreshIds(LegendIds(ls), Len(sr)) IN
    [i \in 1..Len(sr) |->
        [label |-> sr[i].label,
         id |-> IF i <= Len(ls) THEN ls[i].id ELSE fresh[i - Len(ls)],
         tx |-> (i - 1) * itemWidth,
         fill |-> ColorOf(dom, sr[i]),
         text |-> sr[i].label]]

(***************************************************************************)
(* renderXAxisLabel / renderYAxisLabel.  g.labels is [g, x, y]: whether    *)
(* the group is there, and its text.x.axis-label and text.y.axis-label     *)
(* (none or one each).  An empty label ends the function before it         *)
(* touches the surface.  The x label is centered: x2 is twice its x.       *)
(***************************************************************************)
NoLabels == [x |-> <<>>, y |-> <<>>, g |-> 0]

renderXAxisLabel(lb) ==
    IF xAxisLabel = "" THEN lb
    ELSE [lb EXCEPT !.g = 1,
                    !.x = <<[x2 |-> NewInnerWidth + 2 * MarginLeft,
                             y |-> NewInnerHeight + MarginTop, text |-> xAxisLabel]>>]

renderYAxisLabel(lb) ==
    IF yAxisLabel = "" THEN lb
    ELSE [lb EXCEPT !.g = 1,
                    !.y = <<[x |-> -MarginLeft, y |-> MarginTop, text |-> yAxisLabel]>>]

(***************************************************************************)
(* chart(selection): one render pass over the series sr.  The pass ends at *)
(* the first check that fails; what it has written by then stays written.  *)
(* outcome is the warning it logged ("series", "data", "xSerie",           *)
(* "colorScale" from validateSetup, then "size", "inner", "xVals",         *)
(* "yVals"), "throw" when an exception left the call, or "ok".             *)
(***************************************************************************)
PassOutcome(sr) ==
    LET v == validateSetup(sr) IN
    IF v # "ok" THEN v
    ELSE IF ~(size[1] # 0 /\ size[2] # 0) THEN "size"
    ELSE IF NewInnerWidth <= 0 \/ NewInnerHeight <= 0 THEN "inner"
    ELSE IF ~xValsOk THEN "xVals"
    ELSE IF yValsThrows(sr) THEN "throw"
    ELSE IF ~yValsOk(sr) THEN "yVals"
    ELSE "ok"

\* the pass got past the size check: viewBox and the inner size are written
ReachedViewBox(o) == o \in {"inner", "xVals", "throw", "yVals", "ok"}
\* a pass that went on to the scales with no room inside the margins
ReachedXScaleNoRoom(o) == o \in {"inner", "throw", "yVals", "ok"}
\* the pass built the time scale
ReachedXScale(o) == o \in {"throw", "yVals", "ok"}

\* the passes completed on the current inputs, after a pass that ended with o
Completed(o, changed) ==
    IF o = "ok"
    THEN IF changed \/ passes = "changed" THEN "once" ELSE "again"
    ELSE IF changed THEN "changed" ELSE passes

setupChartEventListeners == IF isStatic THEN listening ELSE TRUE

Pass(sr) ==
    \E o \in {PassOutcome(sr)} :
    \E xs \in {IF ReachedXScale(o) THEN NewXScale ELSE xScale} :
    \E ys \in {IF o = "ok" THEN NewYScale(sr) ELSE yScale} :
    \E dom \in {DomainAfter(colorDomain, sr, 1)} :
    /\ outcome' = o
    /\ viewBox' = IF ReachedViewBox(o) THEN <<size[1], size[2]>> ELSE viewBox
    /\ innerWidth' = IF ReachedViewBox(o) THEN NewInnerWidth ELSE innerWidth
    /\ innerHeight' = IF ReachedViewBox(o) THEN NewInnerHeight ELSE innerHeight
    /\ xScale' = xs
    /\ yScale' = ys
    /\ IF o = "ok"
       THEN /\ xAxis' = renderXAxis(xs, NewInnerHeight)
            /\ yAxis' = renderYAxis(ys)
            /\ gridsG' = 1
            /\ xGrid' = renderXGrid(xs, ys)
            /\ yGrid' = renderYGrid(xs, ys)
            /\ labels' = renderYAxisLabel(renderXAxisLabel(labels))
            /\ seriesG' = 1
            /\ groups' = renderSeries(groups, sr, xs, ys, dom)
            /\ legendG' = 1
            /\ legend' = renderLegend(legend, sr, dom)
            /\ colorDomain' = dom
            /\ listening' = setupChartEventListeners
            \* let lastMove = 0, for the listener attached by this pass
            /\ sinceLastMove' = IF isStatic THEN sinceLastMove ELSE LongAgo
            /\ handledAgo' = IF isStatic THEN handledAgo ELSE <<>>
       ELSE UNCHANGED <<axisVars, seriesG, groups, legendVars, colorDomain, listening,
                        throttleVars>>
    /\ UNCHANGED <<data, xSerie, colorScale, optVars, size, cursorLine, tooltipShown,
                   tooltipCall, pointerVars>>

\* svg.call(chart)
chart ==
    /\ Pass(series)
    /\ passes' = Completed(outcome', FALSE)
    /\ UNCHANGED <<series, handlerVars, compVars>>

\* svg.call(chart.series(fields)): the series are set and the chart is
\* invoked in one synchronous block
chartSeriesCall(fields) ==
    /\ series' = fields
    /\ Pass(fields)
    /\ passes' = Completed(outcome', fields # series)
    /\ UNCHANGED <<handlerVars, compVars>>

(***************************************************************************)
(* The setters (chart.series, chart.data, chart.xSerie, chart.colorScale). *)
(* An argument of the wrong type is refused with a warning and nothing is  *)
(* stored.                                                                 *)
(***************************************************************************)
chartSeries(fields) ==
    /\ series' = fields
    /\ passes' = IF series' # series THEN "changed" ELSE passes
    /\ UNCHANGED <<data, xSerie, colorScale, optVars, compVars, colorDomain, closureVars,
                   size, surface, listening, outcome, hoverVars>>

chartData(dataset) ==
    /\ data' = dataset
    /\ passes' = IF data' # data THEN "changed" ELSE passes
    /\ UNCHANGED <<series, xSerie, colorScale, optVars, compVars, colorDomain, closureVars,
                   size, surface, listening, outcome, hoverVars>>

chartXSerie(accessor) ==
    /\ xSerie' = IF accessor = NotFn THEN xSerie ELSE accessor
    /\ passes' = IF xSerie' # xSerie THEN "changed" ELSE passes
    /\ UNCHANGED <<series, data, colorScale, optVars, compVars, colorDomain, closureVars,
                   size, surface, listening, outcome, hoverVars>>

chartColorScale(color) ==
    /\ colorScale' = IF color = "ordinal" THEN color ELSE colorScale
    /\ passes' = IF colorScale' # colorScale THEN "changed" ELSE passes
    /\ UNCHANGED <<series, data, xSerie, optVars, compVars, colorDomain, closureVars,
                   size, surface, listening, outcome, hoverVars>>

\* chart.isStatic(bool): bool is a JS value, a boolean is Bool(b)
Bool(b) == [n |-> IF b THEN 1 ELSE 0, k |-> "bool"]

chartIsStatic(bool) ==
    /\ isStatic' = IF bool.k = "bool" THEN bool.n = 1 ELSE isStatic
    /\ passes' = IF isStatic' # isStatic THEN "changed" ELSE passes
    /\ UNCHANGED <<series, data, xSerie, colorScale, transitionTime, xAxisLabel,
                   yAxisLabel, compVars, colorDomain, closureVars, size, surface,
                   listening, outcome, hoverVars>>

\* chart.transitionTime(time): time is a JS value; it is refused when
\* typeof time !== "number" || time < 0, and NaN < 0 is false
chartTransitionTime(time) ==
    /\ transitionTime' = IF ~IsNumberType(time) \/ (time.k = "num" /\ time.n < 0)
                          THEN transitionTime ELSE time
    /\ passes' = IF transitionTime' # transitionTime THEN "changed" ELSE passes
    /\ UNCHANGED <<series, data, xSerie, colorScale, isStatic, xAxisLabel, yAxisLabel,
                   compVars, colorDomain, closureVars, size, surface, listening,
                   outcome, hoverVars>>

\* chart.xAxisLabel(label), chart.yAxisLabel(label)
chartXAxisLabel(label) ==
    /\ xAxisLabel' = IF label = NoLabel THEN xAxisLabel ELSE label
    /\ passes' = IF xAxisLabel' # xAxisLabel THEN "changed" ELSE passes
    /\ UNCHANGED <<series, data, xSerie, colorScale, isStatic, transitionTime,
                   yAxisLabel, compVars, colorDomain, closureVars, size, surface,
                   listening, outcome, hoverVars>>

chartYAxisLabel(label) ==
    /\ yAxisLabel' = IF label = NoLabel THEN yAxisLabel ELSE label
    /\ passes' = IF yAxisLabel' # yAxisLabel THEN "changed" ELSE passes
    /\ UNCHANGED <<series, data, xSerie, colorScale, isStatic, transitionTime,
                   xAxisLabel, compVars, colorDomain, closureVars, size, surface,
                   listening, outcome, hoverVars>>

\* the surface is laid out anew: its bounding client rect changes
Resize(wh) ==
    /\ size' = wh
    /\ passes' = IF size' # size THEN "changed" ELSE passes
    /\ UNCHANGED <<confVars, colorDomain, closureVars, surface, listening, outcome,
                   hoverVars>>

(***************************************************************************)
(* The transitions run in d3's timer loop, one flush per animation frame,  *)
(* the timers in the order they were created.  In a frame, a superseded    *)
(* draw-in ticks before the morph after it starts and interrupts it; a     *)
(* transition of duration 0 ends in the frame it starts in; any other      *)
(* transition ticks, and ends in the frame in which its duration has       *)
(* passed (late).  The draw-in writes stroke-dashoffset at every tick and  *)
(* leaves it at 0, the morph leaves stroke and d at their targets.         *)
(***************************************************************************)
\* a variant of the tick that interpolates whatever the duration
DrawInTickSlow(dur, late) == IF late THEN "zero" ELSE "part"

\* stroke-dashoffset as a tick of the draw-in writes it
DrawInTick(dur, late) == IF dur = 0 \/ late THEN "zero" ELSE "part"

EndTransition(path) ==
    IF path.trans = "drawin"
    THEN [path EXCEPT !.dashoffset = "zero", !.trans = "none", !.dur = 0]
    ELSE IF path.trans = "morph"
    THEN [path EXCEPT !.d = path.to.d, !.stroke = path.to.stroke,
                      !.trans = "none", !.to = NoTarget, !.dur = 0]
    ELSE path

\* one frame of the timer loop on the paths
Frame(gs, late) ==
    LET FramePath(path) ==
            LET ticked == IF path.prev = <<>> THEN path
                          ELSE [path EXCEPT
                                   !.dashoffset = DrawInTick(path.prev[1], late),
                                   !.prev = <<>>]
            IN IF ticked.trans = "none" THEN ticked
               ELSE IF ticked.trans = "drawin" /\ DrawInTick(ticked.dur, late) = "part"
               THEN [ticked EXCEPT !.dashoffset = "part"]
               ELSE IF ticked.trans = "morph" /\ ticked.dur # 0 /\ ~late
               THEN ticked
               ELSE EndTransition(ticked)
    IN [i \in DOMAIN gs |->
           IF gs[i].path = <<>> THEN gs[i]
           ELSE [gs[i] EXCEPT !.path = <<FramePath(gs[i].path[1])>>]]

Pending(gs) == \E i \in DOMAIN gs : gs[i].path # <<>> /\ gs[i].path[1].trans # "none"

\* a frame before the durations have passed
TransitionsTick ==
    /\ Pending(groups)
    /\ groups' = Frame(groups, FALSE)
    /\ groups' # groups
    /\ UNCHANGED <<confVars, colorDomain, closureVars, size, viewBox, axisVars, seriesG,
                   cursorLine, legendVars, listening, outcome, passes, hoverVars>>

\* a frame after the durations have passed
TransitionsEnd ==
    /\ Pending(groups)
    /\ groups' = Frame(groups, TRUE)
    /\ UNCHANGED <<confVars, colorDomain, closureVars, size, viewBox, axisVars, seriesG,
                   cursorLine, legendVars, listening, outcome, passes, hoverVars>>

(***************************************************************************)
(* renderCursor(selection, closestRow): the groups are joined by index     *)
(* with one datum per series entry (entering groups are appended, groups   *)
(* beyond the data are removed), each group gets its one circle            *)
(* .cursor.point at the row's coordinates, and the one line                *)
(* .cursor.vertical-line is placed at the row's time.  Setting the class   *)
(* attribute drops a "hidden" class.  A point is [id, label, cx, cy, ok,   *)
(* stroke, hidden, datum]; its datum is an object made by this call       *)
(* (obj: its identity, apart from every object still referred to).         *)
(***************************************************************************)
renderCursorGroups(gs, row, dom) ==
    LET joined == JoinGroups(gs, series)
        fresh == FreshIds(PointIds(gs), Len(series))
        objs == FreshIds({lastTooltipDatum}, Len(series))
        rank(i) == Cardinality({j \in 1..i : joined[j].point = <<>>})
    IN [i \in 1..Len(series) |->
           LET x == Read(row, xSerie)
               y == Read(row, series[i].accessor)
               cx == ScaleVal(xScale, x)
               cy == ScaleVal(yScale, y)
           IN [joined[i] EXCEPT !.point =
                  <<[ok |-> cx.ok /\ cy.ok,
                     label |-> series[i].label,
                     stroke |-> ColorOf(dom, series[i]),
                     id |-> IF joined[i].point = <<>> THEN fresh[rank(i)]
                            ELSE joined[i].point[1].id,
                     cx |-> cx.px, cy |-> cy.px,
                     hidden |-> FALSE,
                     datum |-> [x |-> x, y |-> y, obj |-> objs[i]]]>>]]

\* the line placed with the classes it has (classed instead of attr)
renderCursorLineClassed(row) ==
    <<[x |-> ScaleVal(xScale, Read(row, xSerie)).px,
       y1 |-> MarginTop, y2 |-> innerHeight + MarginTop,
       hidden |-> cursorLine # <<>> /\ cursorLine[1].hidden]>>

renderCursorLine(row) ==
    <<[x |-> ScaleVal(xScale, Read(row, xSerie)).px,
       y1 |-> MarginTop, y2 |-> innerHeight + MarginTop, hidden |-> FALSE]>>

\* selectAll(".cursor").classed("hidden", true)
HidePoints(gs) ==
    [i \in DOMAIN gs |->
        IF gs[i].point = <<>> THEN gs[i]
        ELSE [gs[i] EXCEPT !.point = <<[gs[i].point[1] EXCEPT !.hidden = TRUE]>>]]
HideLine(ln) == [i \in DOMAIN ln |-> [ln[i] EXCEPT !.hidden = TRUE]]

(***************************************************************************)
(* handlePointerMoveCursor for a pointermove at (mouseX, mouseY) that the  *)
(* listener's throttle lets through.                                       *)
(***************************************************************************)
WithinChart(mouseX, mouseY) ==
    /\ mouseX >= xScale.r0 /\ mouseX <= xScale.r1
    /\ mouseY >= yScale.r1 /\ mouseY <= yScale.r0

\* the index the lookup resolves: bisector center, clamped to [0, n - 1]
ClosestIdx(mouseX) ==
    LET xValues == [i \in 1..Len(data) |-> Read(data[i], xSerie)]
        mouseDate == ScaleInvert(xScale, mouseX)
        idx == BisectCenter(xValues, mouseDate)
    IN Max(0, Min(idx, Len(data) - 1))

handlePointerMoveCursor(mouseX, mouseY) ==
    /\ listening
    /\ IF ~WithinChart(mouseX, mouseY)
       THEN /\ groups' = HidePoints(groups)
            /\ cursorLine' = HideLine(cursorLine)
            /\ lastCursorIdx' = NoIdx
            /\ UNCHANGED <<seriesG, colorDomain>>
       ELSE IF Len(data) = 0 \/ lastCursorIdx = ClosestIdx(mouseX)
       THEN UNCHANGED <<groups, cursorLine, lastCursorIdx, seriesG, colorDomain>>
       ELSE /\ lastCursorIdx' = ClosestIdx(mouseX)
            /\ IF isStatic
               THEN UNCHANGED <<groups, cursorLine, seriesG, colorDomain>>
               ELSE /\ seriesG' = 1
                    /\ IF \E i \in 1..Len(series) : series[i].accessor = NotFn
                       \* series.map(...) throws inside the handler
                       THEN UNCHANGED <<groups, cursorLine, colorDomain>>
                       ELSE \E row \in {data[ClosestIdx(mouseX) + 1]} :
                            \E dom \in {DomainAfter(colorDomain, series, 1)} :
                            /\ groups' = renderCursorGroups(groups, row, dom)
                            /\ cursorLine' = renderCursorLine(row)
                            /\ colorDomain' = dom
    /\ UNCHANGED <<confVars, innerWidth, innerHeight, xScale, yScale, size, viewBox,
                   axisVars, legendVars, listening, outcome, passes, tooltipVars,
                   hovered>>

(***************************************************************************)
(* throttledPointerMove: the pointermove listener that a completed pass    *)
(* attaches.  A move is handled when more than throttleMs passed since     *)
(* lastMove, and lastMove is then set unless the handler threw; any other  *)
(* move is dropped.                                                        *)
(***************************************************************************)
LetsThroughAtLimit(age) == age >= throttleMs

\* now - lastMove > throttleMs
LetsThrough(age) == age > throttleMs

throttledPointerMove(mouseX, mouseY) ==
    /\ listening
    /\ pointerAt' = IF WithinChart(mouseX, mouseY) THEN "inside" ELSE "outside"
    /\ IF LetsThrough(sinceLastMove)
       THEN /\ handlePointerMoveCursor(mouseX, mouseY)
            /\ IF /\ WithinChart(mouseX, mouseY) /\ Len(data) # 0
                  /\ lastCursorIdx # ClosestIdx(mouseX) /\ ~isStatic
                  /\ \E i \in 1..Len(series) : series[i].accessor = NotFn
               THEN UNCHANGED throttleVars
               ELSE sinceLastMove' = 0 /\ handledAgo' = <<0>>
       ELSE UNCHANGED <<confVars, colorDomain, closureVars, size, surface, listening,
                        outcome, passes, throttleVars, tooltipVars, hovered>>

(***************************************************************************)
(* The tooltip handlers.  pointerover and pointerout reach the listeners   *)
(* with a marker (.point) as target; a marker that is hidden               *)
(* (visibility: hidden) is no target.  setTimeout adds a timer under an id *)
(* no pending timer has, clearTimeout removes the timer of that id.        *)
(***************************************************************************)
\* tooltip.show / tooltip.hide on a tooltip that was never set
Throws(tip) == tip = "undefined"

\* chart.tooltip(tooltipInstance): typeof "object" and not null
chartTooltip(tooltipInstance) ==
    /\ tooltip' = IF tooltipInstance \in {"undefined", "null"} THEN tooltip
                  ELSE tooltipInstance
    /\ UNCHANGED <<confVars, colorDomain, closureVars, size, surface, listening, outcome,
                   passes, throttleVars, pointerVars, lastTooltipDatum,
                   hideTooltipTimeout, timers, tooltipShown, tooltipCall>>

KeepTimeout(ts, id) == ts

ClearTimeout(ts, id) == {t \in ts : t.id # id}

SetTimeout(ts, delay) ==
    [id |-> FreshIds({t.id : t \in ts}, 1)[1], old |-> FALSE, left |-> delay]

Marker(i) == i \in DOMAIN groups /\ groups[i].point # <<>>

handleClosestPointOver(i) ==
    /\ listening /\ hovered = 0
    /\ Marker(i) /\ ~groups[i].point[1].hidden
    /\ hovered' = i
    /\ timers' = IF hideTooltipTimeout # 0 THEN ClearTimeout(timers, hideTooltipTimeout)
                 ELSE timers
    /\ hideTooltipTimeout' = 0
    /\ \E datum \in {groups[i].point[1].datum.obj} :
          IF lastTooltipDatum # datum
          THEN IF Throws(tooltip)
               \* tooltip.show throws before lastTooltipDatum is set
               THEN tooltipCall' = "throw" /\ UNCHANGED <<tooltipShown, lastTooltipDatum>>
               ELSE /\ tooltipShown' = TRUE /\ tooltipCall' = "show"
                    /\ lastTooltipDatum' = datum
          ELSE tooltipCall' = "none" /\ UNCHANGED <<tooltipShown, lastTooltipDatum>>
    /\ UNCHANGED <<confVars, colorDomain, closureVars, size, surface, listening, outcome,
                   passes, throttleVars, pointerAt, tooltip>>

handleClosestPointOut(i) ==
    /\ listening /\ hovered = i
    /\ Marker(i)
    /\ hovered' = 0
    /\ \E cleared \in {IF hideTooltipTimeout # 0
                        THEN ClearTimeout(timers, hideTooltipTimeout) ELSE timers} :
       \E timer \in {SetTimeout(cleared, TOOLTIP_HIDE_DELAY)} :
          /\ timers' = cleared \cup {timer}
          /\ hideTooltipTimeout' = timer.id
    /\ tooltipCall' = "none"
    /\ UNCHANGED <<confVars, colorDomain, closureVars, size, surface, listening, outcome,
                   passes, throttleVars, pointerAt, lastTooltipDatum, tooltipShown,
                   tooltip>>

\* the callback of a hide timer whose delay has passed; lastTooltipDatum is
\* the variable of the closure that scheduled the timer
hideTooltip(timer) ==
    /\ timer \in timers /\ timer.left = 0
    /\ timers' = timers \ {timer}
    /\ IF Throws(tooltip)
       \* tooltip.hide throws before lastTooltipDatum is reset
       THEN tooltipCall' = "throw" /\ UNCHANGED <<tooltipShown, lastTooltipDatum>>
       ELSE /\ tooltipShown' = FALSE
            /\ tooltipCall' = "hide"
            /\ lastTooltipDatum' = IF timer.old THEN lastTooltipDatum ELSE 0
    /\ UNCHANGED <<confVars, colorDomain, closureVars, size, surface, listening, outcome,
                   passes, throttleVars, pointerVars, hideTooltipTimeout, tooltip>>

\* d ms pass; a timer whose delay has passed runs before time goes on
Tick(d) ==
    /\ \A t \in timers : t.left > 0
    /\ sinceLastMove' = Min(sinceLastMove + d, LongAgo)
    /\ handledAgo' = [i \in DOMAIN handledAgo |-> Min(handledAgo[i] + d, LongAgo)]
    /\ timers' = {[t EXCEPT !.left = Max(t.left - d, 0)] : t \in timers}
    /\ UNCHANGED <<confVars, colorDomain, closureVars, size, surface, listening, outcome,
                   passes, pointerVars, lastTooltipDatum, hideTooltipTimeout, tooltipShown,
                   tooltipCall, tooltip>>

(***************************************************************************)
(* The component's #renderChart: nothing happens without rows or without   *)
(* series; otherwise a new chart closure is created, configured as the     *)
(* component is and called on the surface.  When its pass completes, its   *)
(* listeners replace those of the closure before it, whose pending timers  *)
(* stay in the event loop; when its pass is abandoned, the closure before  *)
(* it stays in charge and only the surface tells of the call.              *)
(***************************************************************************)
createTimeVizChartCall ==
    /\ Cardinality(timers) <= MaxOrphans
    /\ \E o \in {PassOutcome(series)} :
       IF o = "ok"
       THEN /\ Pass(series)
            /\ lastCursorIdx' = NoIdx
            /\ lastTooltipDatum' = 0
            /\ hideTooltipTimeout' = 0
            /\ timers' = {[t EXCEPT !.old = TRUE] : t \in timers}
            \* .tooltip(this._tooltip): the element of the component's template
            /\ tooltip' = "tip"
       ELSE /\ outcome' = o
            /\ viewBox' = IF ReachedViewBox(o) THEN <<size[1], size[2]>> ELSE viewBox
            /\ UNCHANGED <<colorDomain, closureVars, size, axisVars, seriesVars, legendVars,
                           listening, hoverVars>>
    /\ passes' = Completed(outcome', FALSE)

\* with every row inside the date range and no series filtered out
renderChart ==
    /\ Len(data) # 0 /\ Len(series) # 0
    /\ createTimeVizChartCall
    /\ UNCHANGED confVars

NoConfig == [data |-> <<>>, xSerie |-> "t", ySeries |-> <<>>]

InitAt(zone) ==
    /\ series = <<>>
    /\ data = <<>>
    /\ xSerie = "undefined"
    /\ colorScale = "undefined"
    /\ colorDomain = <<>>
    /\ innerWidth = 0
    /\ innerHeight = 0
    /\ xScale = NoScale
    /\ yScale = NoScale
    /\ lastCursorIdx = NoIdx
    /\ size = <<0, 0>>
    /\ viewBox = <<>>
    /\ xAxis = <<>>
    /\ yAxis = <<>>
    /\ gridsG = 0
    /\ xGrid = <<>>
    /\ yGrid = <<>>
    /\ seriesG = 0
    /\ groups = <<>>
    /\ cursorLine = <<>>
    /\ legendG = 0
    /\ legend = <<>>
    /\ listening = FALSE
    /\ outcome = "none"
    /\ passes = "changed"
    /\ sinceLastMove = LongAgo
    /\ handledAgo = <<>>
    /\ lastTooltipDatum = 0
    /\ hideTooltipTimeout = 0
    /\ timers = {}
    /\ tooltipShown = FALSE
    /\ tooltipCall = "none"
    /\ pointerAt = "none"
    /\ hovered = 0
    /\ isStatic = FALSE
    /\ transitionTime = Num(0)
    /\ xAxisLabel = ""
    /\ yAxisLabel = ""
    /\ labels = NoLabels
    /\ tooltip = "undefined"
    /\ _config = NoConfig
    /\ _data = <<>>
    /\ _selectedSeries = "All"
    /\ _hiddenSeries = {}
    /\ _startDate = <<>>
    /\ _endDate = <<>>
    /\ _minDate = <<>>
    /\ _maxDate = <<>>
    /\ changedProperties = {}
    /\ tz = zone
    /\ clickedItem = ""

Init == InitAt(0)

(***************************************************************************)
(* Specifications.  The chart is driven by a caller that configures it     *)
(* through the setters, invokes it on the surface, resizes the surface and *)
(* moves the pointer; transitions end on their own.  The specifications   *)
(* differ in the operations and the inputs the caller draws from; in Spec  *)
(* the series are set and rendered in one block, as the component's        *)
(* #renderChart does.                                                      *)
(***************************************************************************)
\* surface sizes: not laid out, no room inside the margins, two plot sizes
NoSize == <<0, 0>>
TightSize == <<MarginLeft + MarginRight, MarginTop + MarginBottom + 10>>
SmallSize == <<MarginLeft + MarginRight + 8, MarginTop + MarginBottom + 10>>
WideSize == <<MarginLeft + MarginRight + 16, MarginTop + MarginBottom + 10>>

WellFormed == {f \in SeqsUpTo({SA, SB, SC}, MaxSeries) : DistinctLabels(f)}

\* Spec: reconciliation of the series and the legend while series[] changes
Next ==
    \/ \E f \in WellFormed : chartSeriesCall(f)
    \/ chartData(GoodData(MaxRows))
    \/ chartXSerie("t")
    \/ chartColorScale("ordinal")
    \/ Resize(SmallSize)
    \/ chart
    \/ TransitionsEnd

Spec == Init /\ [][Next]_vars

\* SpecErr: the error paths of a pass, over well-formed and malformed inputs
ErrSeries == {<<>>, <<SA, SB>>, <<SBadFn>>, <<SNoLabel>>}
ErrData ==
    {<<>>, GoodData(MaxRows), MissingA, NumericTimes, WithA(2, Undef), WithA(1, NaNV)}
        \cup {WithTime(p, Num(TimeOf(p))) : p \in 1..MaxRows}

NextErr ==
    \/ \E f \in ErrSeries : chartSeries(f)
    \/ \E d \in ErrData : chartData(d)
    \/ \E a \in {"t", NotFn} : chartXSerie(a)
    \/ \E c \in {"ordinal", "notscale"} : chartColorScale(c)
    \/ \E wh \in {TightSize, SmallSize} : Resize(wh)
    \/ chart

SpecErr == Init /\ [][NextErr]_vars

\* SpecLookup: the pointer moves over a rendered chart
PointerXs == (MarginLeft - 1)..(MarginLeft + 17)
PointerY == MarginTop + 5

NextLookup ==
    \/ chartSeries(<<SA>>)
    \/ \E n \in 1..MaxRows : chartData(GoodData(n))
    \/ chartXSerie("t")
    \/ chartColorScale("ordinal")
    \/ \E wh \in {SmallSize, WideSize} : Resize(wh)
    \/ chart
    \/ \E mouseX \in PointerXs : throttledPointerMove(mouseX, PointerY)
    \/ Tick(LongAgo)

SpecLookup == Init /\ [][NextLookup]_vars

\* SpecHover: pointer moves, hovers, timers and re-renders over one chart
HoverXs == {MarginLeft - 1, MarginLeft, MarginLeft + 8}
TickSteps == {throttleMs, TOOLTIP_HIDE_DELAY}

NextHover ==
    \/ chartSeries(<<SA, SB>>)
    \/ chartData(GoodData(MaxRows))
    \/ chartXSerie("t")
    \/ chartColorScale("ordinal")
    \/ Resize(SmallSize)
    \/ chart
    \/ renderChart
    \/ \E mouseX \in HoverXs : throttledPointerMove(mouseX, PointerY)
    \/ \E i \in 1..MaxSeries : handleClosestPointOver(i)
    \/ \E i \in 1..MaxSeries : handleClosestPointOut(i)
    \/ \E timer \in timers : hideTooltip(timer)
    \/ \E d \in TickSteps : Tick(d)

SpecHover == Init /\ [][NextHover]_vars

\* time passes, and the event loop runs a timer whose delay has passed
SpecHoverFair ==
    /\ SpecHover
    /\ WF_vars(\E d \in TickSteps : Tick(d))
    /\ WF_vars(\E timer \in timers : hideTooltip(timer))

\* SpecDup: series[] with and without a repeated label
NextDup ==
    \/ \E f \in {<<SA>>, <<SA, SB>>, <<SA, SDup>>} : chartSeries(f)
    \/ \E n \in 1..MaxRows : chartData(GoodData(n))
    \/ chartXSerie("t")
    \/ chartColorScale("ordinal")
    \/ Resize(SmallSize)
    \/ chart
    \/ TransitionsEnd

SpecDup == Init /\ [][NextDup]_vars

\* SpecStatic: the static flag is switched between passes over one chart
NextStatic ==
    \/ chartSeries(<<SA>>)
    \/ chartData(GoodData(2))
    \/ chartXSerie("t")
    \/ chartColorScale("ordinal")
    \/ Resize(SmallSize)
    \/ \E bool \in {Bool(TRUE), Bool(FALSE), Undef} : chartIsStatic(bool)
    \/ \E tooltipInstance \in {"tip", "null"} : chartTooltip(tooltipInstance)
    \/ chart
    \/ \E mouseX \in HoverXs : throttledPointerMove(mouseX, PointerY)
    \/ handleClosestPointOver(1)
    \/ handleClosestPointOut(1)
    \/ \E timer \in timers : hideTooltip(timer)
    \/ \E d \in TickSteps : Tick(d)

SpecStatic == Init /\ [][NextStatic]_vars

\* SpecTrans: passes while the transitions of earlier passes still run
NextTrans ==
    \/ \E f \in {<<SA>>, <<SB, SA>>} : chartSeries(f)
    \/ chartData(GoodData(2))
    \/ chartXSerie("t")
    \/ chartColorScale("ordinal")
    \/ Resize(SmallSize)
    \/ \E time \in {Num(0), Num(250), Num(-1), Undef} : chartTransitionTime(time)
    \/ \E label \in {"", "Time", NoLabel} : chartXAxisLabel(label)
    \/ \E label \in {"", "Value", NoLabel} : chartYAxisLabel(label)
    \/ chart
    \/ TransitionsTick
    \/ TransitionsEnd

SpecTrans == Init /\ [][NextTrans]_vars

(***************************************************************************)
(* Properties.                                                             *)
(***************************************************************************)
\* a step that is one call of the chart on the surface, whatever series it
\* was given
Render == chartSeriesCall(series')

\* the label each element of a list is bound to, in document order
LabelsOf(es) == [i \in DOMAIN es |-> es[i].label]
\* the path elements, legend entries inside the elements bound to a label
PathOf(gs, label) ==
    {gs[i].path[1].id : i \in {j \in DOMAIN gs : gs[j].label = label /\ gs[j].path # <<>>}}
LegendOf(ls, label) == {ls[i].id : i \in {j \in DOMAIN ls : ls[j].label = label}}
\* the surface shows the series of the configuration
Rendered ==
    /\ outcome = "ok"
    /\ LabelsOf(groups) = LabelsOf(series)
    /\ LabelsOf(legend) = LabelsOf(series)
\* a sequence without its k-th element
RemoveAt(f, k) == [i \in 1..(Len(f) - 1) |-> IF i < k THEN f[i] ELSE f[i + 1]]

(***************************************************************************)
(* C2: when the series are rendered and the chart is rendered again with   *)
(* one entry of series[] removed (at any position), exactly the path and   *)
(* the legend entry bound to the removed label leave the surface, and      *)
(* every remaining label keeps the path element and the legend entry it    *)
(* had.                                                                    *)
(***************************************************************************)
C2_RemoveExactlyThatSeries ==
    [][\A k \in 1..Len(series) :
          (Rendered /\ series' = RemoveAt(series, k) /\ Render /\ outcome' = "ok")
          => /\ PathIds(groups') = PathIds(groups) \ PathOf(groups, series[k].label)
             /\ LegendIds(legend') = LegendIds(legend) \ LegendOf(legend, series[k].label)
             /\ \A i \in DOMAIN series' :
                   /\ PathOf(groups', series'[i].label) = PathOf(groups, series'[i].label)
                   /\ LegendOf(legend', series'[i].label)
                         = LegendOf(legend, series'[i].label)]_vars

(***************************************************************************)
(* C3: in every completed pass, a series whose label had no path before    *)
(* the pass gets a new path element that plays the draw-in (its            *)
(* stroke-dashoffset starts at the path's length), whatever array position *)
(* it takes.                                                               *)
(***************************************************************************)
C3_NewLabelDrawsIn ==
    [][(Render /\ outcome' = "ok")
       => \A i \in DOMAIN series' :
             PathOf(groups, series'[i].label) = {}
             => /\ groups'[i].path[1].id \notin PathIds(groups)
                /\ groups'[i].path[1].label = series'[i].label
                /\ groups'[i].path[1].dashoffset = "len"
                /\ groups'[i].path[1].trans = "drawin"]_vars

(***************************************************************************)
(* C4: a call of the chart with the configuration, data and surface size   *)
(* of the last completed pass leaves the same series groups and paths,     *)
(* legend entries, axis groups and gridlines (same elements, same labels,  *)
(* same count).                                                            *)
(***************************************************************************)
Elements ==
    [groups |-> {<<groups[i].id, groups[i].label>> : i \in DOMAIN groups},
     legend |-> {<<legend[i].id, legend[i].label>> : i \in DOMAIN legend},
     paths |-> {<<groups[i].path[1].id, groups[i].path[1].label>> :
                    i \in {j \in DOMAIN groups : groups[j].path # <<>>}},
     pathCount |-> Len(groups),
     legendCount |-> Len(legend),
     axes |-> <<Len(xAxis), Len(yAxis)>>,
     grids |-> <<gridsG, Len(xGrid), Len(yGrid)>>,
     containers |-> <<seriesG, legendG>>]

C4_RenderIdempotent ==
    [][(chart /\ passes # "changed") => (outcome' = "ok" /\ Elements' = Elements)]_vars

\* the chart was rendered twice in a row on two series
C4_RenderedTwice ==
    /\ passes = "again"
    /\ outcome = "ok"
    /\ Len(groups) = 2
    /\ Len(legend) = 2
    /\ Len(xGrid) > 0 /\ Len(yGrid) > 0

(***************************************************************************)
(* C5: when the only series is removed and the chart is rendered again,    *)
(* the surface ends with no series path and no legend entry.               *)
(***************************************************************************)
C5_RemoveOnlySeries ==
    [][(Len(series) = 1 /\ series' = <<>> /\ Render)
       => (PathIds(groups') = {} /\ legend' = <<>>)]_vars

\* a step that is a call of the chart with the stored configuration; chart
\* leaves the configuration and the size alone, which tells it from the other
\* steps at once
ChartCalled == UNCHANGED <<confVars, size>> /\ chart

(***************************************************************************)
(* C6: a pass that is abandoned with a warning (invalid configuration,     *)
(* surface without size, no room inside the margins, time values that are  *)
(* no Dates, series values that are no numbers) leaves every attribute and *)
(* child of the surface as it was.                                         *)
(***************************************************************************)
Invalid == {"series", "data", "xSerie", "colorScale"}
Abandoned == Invalid \cup {"size", "inner", "xVals", "yVals"}

C6_AbandonedBeforeAnyChange ==
    [][(ChartCalled /\ outcome' \in Abandoned) => surface' = surface]_vars

(***************************************************************************)
(* C7: a call of the chart whose series[] holds an entry that is no        *)
(* well-formed spec (accessor not callable, or label missing), everything  *)
(* else being in order, ends as a validation failure: no exception leaves  *)
(* the call and the surface is not touched.                                *)
(***************************************************************************)
Malformed(sr) == \E i \in DOMAIN sr : sr[i].accessor = NotFn \/ sr[i].label = NoLabel
\* data, accessor, color scale and surface size would let a pass complete
RestInOrder ==
    /\ data = GoodData(MaxRows) /\ xSerie = "t" /\ colorScale = "ordinal"
    /\ NewInnerWidth > 0 /\ NewInnerHeight > 0

C7_MalformedSeriesFailsValidation ==
    [][(ChartCalled /\ Malformed(series) /\ RestInOrder)
       => (outcome' \in Invalid /\ surface' = surface)]_vars

(***************************************************************************)
(* C8 as stated: the validator checks data, then series, then the time     *)
(* accessor, then the color assigner, and the pass reports the first check *)
(* that fails in that order.                                               *)
(***************************************************************************)
C8_DataCheckedFirst ==
    [][ChartCalled
       => /\ Len(data) = 0 => outcome' = "data"
          /\ (Len(data) # 0 /\ Len(series) = 0) => outcome' = "series"
          /\ (Len(data) # 0 /\ Len(series) # 0 /\ xSerie = "undefined")
                => outcome' = "xSerie"
          /\ (Len(data) # 0 /\ Len(series) # 0 /\ xSerie # "undefined"
                /\ colorScale = "undefined")
                => outcome' = "colorScale"]_vars

(***************************************************************************)
(* C8 as the code has it: the validator checks series, then data, then the *)
(* time accessor, then the color assigner, and the pass reports the first  *)
(* check that fails in that order; with data and series both empty the     *)
(* reason is the one for series.                                           *)
(***************************************************************************)
C8_SeriesCheckedFirst ==
    [][ChartCalled
       => /\ Len(series) = 0 => outcome' = "series"
          /\ (Len(series) # 0 /\ Len(data) = 0) => outcome' = "data"
          /\ (Len(series) # 0 /\ Len(data) # 0 /\ xSerie = "undefined")
                => outcome' = "xSerie"
          /\ (Len(series) # 0 /\ Len(data) # 0 /\ xSerie # "undefined"
                /\ colorScale = "undefined")
                => outcome' = "colorScale"
          /\ (Len(series) # 0 /\ Len(data) # 0 /\ xSerie # "undefined"
                /\ colorScale # "undefined")
                => outcome' \notin Invalid]_vars

\* the chart was called with the series and the data both empty
C8_BothEmptyReported == outcome = "series" /\ series = <<>> /\ data = <<>>

(***************************************************************************)
(* C9: if a series accessor returns a value that is no finite number       *)
(* (missing, NaN) for some row, the pass is abandoned with a warning.      *)
(***************************************************************************)
HasMissingValue ==
    \E i \in DOMAIN data, j \in DOMAIN series :
        series[j].accessor # NotFn /\ Read(data[i], series[j].accessor).k # "num"

C9_MissingValueAbandons ==
    [][(ChartCalled /\ HasMissingValue /\ ~Malformed(series)) => outcome' \in Abandoned]_vars

(***************************************************************************)
(* C10: if the time accessor returns a Date for some rows and a value that *)
(* is no Date for others, the pass is abandoned with a warning, whichever  *)
(* rows hold the values that are no Dates.                                 *)
(***************************************************************************)
MixedTimes ==
    /\ xSerie # "undefined"
    /\ \E i \in DOMAIN data : IsDate(Read(data[i], xSerie))
    /\ \E i \in DOMAIN data : ~IsDate(Read(data[i], xSerie))

C10_MixedTimesAbandon ==
    [][(ChartCalled /\ MixedTimes /\ ~Malformed(series)) => outcome' \in Abandoned]_vars

(***************************************************************************)
(* C1: for data with strictly increasing times, a pointer move inside the  *)
(* plot area at pixel x resolves an index i that minimizes                 *)
(* |t_i - invert(x)|, and the lower index when invert(x) is exactly midway *)
(* between two adjacent rows.                                              *)
(***************************************************************************)
TimeAt(i) == Read(data[i + 1], xSerie).n
Increasing == \A i \in 1..(Len(data) - 1) : TimeAt(i - 1) < TimeAt(i)
Distance(i, mouseX) == Abs(TimeAt(i) - ScaleInvert(xScale, mouseX))

C1_NearestLowerOnTie ==
    [][\A mouseX \in PointerXs :
          (/\ handlePointerMoveCursor(mouseX, PointerY)
           /\ WithinChart(mouseX, PointerY)
           /\ Len(data) > 0 /\ Increasing)
          => \A j \in 0..(Len(data) - 1) :
                \/ Distance(lastCursorIdx', mouseX) < Distance(j, mouseX)
                \/ /\ Distance(lastCursorIdx', mouseX) = Distance(j, mouseX)
                   /\ lastCursorIdx' <= j]_vars
(***************************************************************************)
(* C11: a call of the chart whose series[] holds two specs with one label, *)
(* everything else being in order, is rejected: the pass ends as a         *)
(* validation failure and no path and no legend entry is created or        *)
(* changed.                                                                *)
(***************************************************************************)
C11_DuplicateLabelsRejected ==
    [][(ChartCalled /\ ~DistinctLabels(series) /\ RestInOrder)
       => (outcome' \in Invalid /\ groups' = groups /\ legend' = legend)]_vars

(***************************************************************************)
(* C12: a pass that completes leaves a time scale whose domain is the      *)
(* niced [min, max] of the time accessor over all rows, and one value      *)
(* scale whose domain is the niced [min, max] of every series accessor     *)
(* over all rows together; both domains contain the raw [min, max].        *)
(***************************************************************************)
SetMin(S) == CHOOSE m \in S : \A x \in S : m <= x
SetMax(S) == CHOOSE m \in S : \A x \in S : x <= m
Times == {Read(data[i], xSerie).n : i \in 1..Len(data)}
Values == {Read(data[i], series[j].accessor).n : i \in 1..Len(data), j \in 1..Len(series)}
DomainOf(scale) == <<scale.d0, scale.d1>>

C12_SharedRawDomains ==
    [][(ChartCalled /\ outcome' = "ok")
       => /\ DomainOf(xScale') = TimeNice(SetMin(Times), SetMax(Times))
          /\ DomainOf(yScale') = LinearNice(SetMin(Values), SetMax(Values))
          /\ xScale'.d0 <= SetMin(Times) /\ SetMax(Times) <= xScale'.d1
          /\ yScale'.d0 <= SetMin(Values) /\ SetMax(Values) <= yScale'.d1]_vars

\* two series with different value ranges were rendered on one value scale
C12_TwoSeriesOneScale ==
    /\ passes # "changed" /\ series = <<SA, SB>> /\ Len(data) = MaxRows
    /\ SetMin({Read(data[i], "a").n : i \in 1..Len(data)}) > yScale.d0
    /\ SetMax({Read(data[i], "b").n : i \in 1..Len(data)}) < yScale.d1

(***************************************************************************)
(* C13: the scales a completed pass leaves have domains of non-zero width  *)
(* (lower bound strictly below upper bound), also when the dataset is a    *)
(* single row.                                                             *)
(***************************************************************************)
C13_DomainsHaveWidth ==
    passes # "changed" => (xScale.d0 < xScale.d1 /\ yScale.d0 < yScale.d1)

(***************************************************************************)
(* C14: a call of the chart on a surface whose width or height is zero, or *)
(* whose inner width or inner height is <= 0, is abandoned: neither scale  *)
(* is built and no axis, gridline, series or legend element is drawn or    *)
(* changed.                                                                *)
(***************************************************************************)
NoRoom ==
    \/ size[1] = 0 \/ size[2] = 0
    \/ NewInnerWidth <= 0 \/ NewInnerHeight <= 0

C14_NoRoomAbandons ==
    [][(ChartCalled /\ NoRoom)
       => /\ outcome' \in Invalid \cup {"size", "inner"}
          /\ UNCHANGED <<xScale, yScale, axisVars, seriesVars, legendVars>>]_vars

\* a rendered chart whose surface then lost the room inside its margins
C14_AbandonedForRoom ==
    outcome = "inner" /\ size = TightSize /\ xScale.def /\ PathIds(groups) # {}

(***************************************************************************)
(* C15: a move event that takes the pointer from inside the plotting       *)
(* bounds to outside them leaves the guide line and every marker hidden,   *)
(* however soon it follows the move event before it.                       *)
(***************************************************************************)
CursorHidden ==
    /\ \A i \in DOMAIN groups : groups[i].point # <<>> => groups[i].point[1].hidden
    /\ \A i \in DOMAIN cursorLine : cursorLine[i].hidden

C15_LeavingHidesCursor ==
    [][(pointerAt = "inside" /\ pointerAt' = "outside") => CursorHidden']_vars

(***************************************************************************)
(* C16: a handled move outside the plotting bounds hides the cursor and    *)
(* resets the tracked index to none; the next handled move inside them     *)
(* then renders the cursor: every series has its marker, the guide line is *)
(* there, none of them hidden, and the index is tracked again - whatever   *)
(* index the move resolves to.                                             *)
(***************************************************************************)
Handled ==
    /\ LetsThrough(sinceLastMove) /\ sinceLastMove' = 0
    /\ \E mouseX \in HoverXs : throttledPointerMove(mouseX, PointerY)

CursorShown ==
    /\ Len(groups) = Len(series)
    /\ \A i \in DOMAIN groups : groups[i].point # <<>> /\ ~groups[i].point[1].hidden
    /\ Len(cursorLine) = 1 /\ ~cursorLine[1].hidden

C16_ReentryRendersCursor ==
    [][/\ (Handled /\ pointerAt' = "outside") => (lastCursorIdx' = NoIdx /\ CursorHidden')
       /\ (Handled /\ pointerAt' = "inside" /\ lastCursorIdx = NoIdx)
             => (CursorShown' /\ lastCursorIdx' # NoIdx)]_vars

\* the pointer left a shown cursor, the leaving move was handled, and the
\* throttle lets the next move through
C16_LeftAndReset ==
    /\ lastCursorIdx = NoIdx /\ pointerAt = "outside" /\ LetsThrough(sinceLastMove)
    /\ cursorLine # <<>> /\ CursorHidden

(***************************************************************************)
(* C17: while the tooltip is shown for the row the markers stand on, a     *)
(* hover-on on a marker of that row - the marker it was shown for or       *)
(* another series' marker - does not call tooltip.show again.              *)
(***************************************************************************)
\* the tooltip is shown for the datum of one of the markers, all of which
\* one call of renderCursor placed on one row
ShownForMarkedRow ==
    /\ tooltipShown
    /\ \E j \in DOMAIN groups :
          Marker(j) /\ groups[j].point[1].datum.obj = lastTooltipDatum

C17_SameRowShowsOnce ==
    [][(ShownForMarkedRow /\ hovered = 0 /\ hovered' # 0) => tooltipCall' # "show"]_vars

(***************************************************************************)
(* C18: a hide of the tooltip that was pending when a hover-on arrived     *)
(* never fires: no hide timer runs while the pointer is over a marker      *)
(* (after a hover-on and before the hover-off that follows it) - also when *)
(* the component rendered the chart anew between the hover-off and the     *)
(* hover-on.                                                               *)
(***************************************************************************)
C18_HoverOnCancelsHide ==
    [][\A timer \in timers : hideTooltip(timer) => hovered = 0]_vars

(***************************************************************************)
(* C19: a hover-off does not hide the tooltip itself: it leaves the        *)
(* tooltip and the last-shown subject as they are and schedules one hide   *)
(* TOOLTIP_HIDE_DELAY ms ahead in place of any hide the chart had pending, *)
(* so that a chart never has two hides pending.  When such a hide runs it  *)
(* hides the tooltip and resets the last-shown subject, and the hover-on   *)
(* after it shows the tooltip again (on a chart that was given a tooltip). *)
(* A pending hide does not stay pending for ever: it runs unless a         *)
(* hover-on cancels it or the chart is replaced.                           *)
(***************************************************************************)
PendingHides == {t \in timers : ~t.old}

C19_HoverOffDebounced ==
    /\ [][/\ Cardinality(PendingHides') <= 1
          /\ (hovered # 0 /\ hovered' = 0)
                => /\ UNCHANGED <<tooltipShown, lastTooltipDatum>>
                   /\ tooltipCall' = "none"
                   /\ PendingHides' = {[id |-> hideTooltipTimeout', old |-> FALSE,
                                        left |-> TOOLTIP_HIDE_DELAY]}
          /\ \A timer \in PendingHides :
                hideTooltip(timer)
                  => (~tooltipShown' /\ lastTooltipDatum' = 0 /\ PendingHides' = {})
          /\ (lastTooltipDatum = 0 /\ hovered = 0 /\ hovered' # 0 /\ ~Throws(tooltip))
                => (tooltipShown' /\ tooltipCall' = "show")]_vars
    /\ (PendingHides # {}) ~> (PendingHides = {})

\* the scheduled hide ran with no hover-on in between: the tooltip is
\* hidden and the last-shown subject reset
C19_HideRan ==
    /\ tooltipCall = "hide" /\ ~tooltipShown /\ lastTooltipDatum = 0
    /\ hideTooltipTimeout # 0 /\ hovered = 0 /\ timers = {}

(***************************************************************************)
(* C20: with well-formed series, a move event is handled by the listener   *)
(* of a pass only when that listener handled none before or more than     *)
(* throttleMs ms passed since the last one it handled; a move event that   *)
(* arrives sooner changes nothing but the pointer's position: cursor,      *)
(* tooltip and throttle state stay as they are.                            *)
(***************************************************************************)
Sooner == handledAgo # <<>> /\ handledAgo[1] <= throttleMs

C20_MovesThrottled ==
    [][/\ Handled => ~Sooner
       /\ (Sooner /\ pointerAt' # pointerAt)
             => UNCHANGED <<confVars, colorDomain, closureVars, size, surface, listening,
                            outcome, passes, throttleVars, tooltipVars, hovered>>]_vars

\* a move event came exactly throttleMs ms after a handled one, took the
\* pointer out of the plotting bounds and was dropped
C20_MoveDropped ==
    /\ handledAgo = <<throttleMs>> /\ sinceLastMove = throttleMs
    /\ pointerAt = "outside" /\ lastCursorIdx # NoIdx


(***************************************************************************)
(* C21: once a render pass has completed with the static flag on, the      *)
(* surface has no active pointer interaction: the listeners that an        *)
(* earlier, interactive pass attached are detached.                        *)
(***************************************************************************)
C21_StaticPassDetaches ==
    (passes # "changed" /\ outcome = "ok" /\ isStatic) => ~listening

(***************************************************************************)
(* C22: no pointer handler observes a half-built scale.  While the         *)
(* listeners are attached, the scales and the inner size they read change  *)
(* only by a pass that completes; a pass that is abandoned part-way leaves *)
(* them as the last completed pass built them.                             *)
(***************************************************************************)
C22_HandlersReadOnePass ==
    [][(listening /\ outcome' # "ok")
          => UNCHANGED <<innerWidth, innerHeight, xScale, yScale>>]_vars

(***************************************************************************)
(* C23: a new pass's transition supersedes the one before it on a path,    *)
(* which then writes to the path no more.  The update's transition is on   *)
(* stroke and d and the update clears stroke-dashoffset: once a path's     *)
(* newest transition is an update's, nothing writes a stroke-dashoffset    *)
(* to it (the attribute changes only by being cleared again).              *)
(***************************************************************************)
C23_SupersededWritesNoMore ==
    [][\A i \in DOMAIN groups \cap DOMAIN groups' :
          (/\ groups[i].path # <<>> /\ groups'[i].path # <<>>
           /\ groups'[i].path[1].id = groups[i].path[1].id
           /\ groups[i].path[1].trans = "morph")
          => groups'[i].path[1].dashoffset \in {groups[i].path[1].dashoffset, "none"}]_vars

\* the paths on the surface, by element id
PathsOf(gs) == {gs[i].path[1] : i \in {j \in DOMAIN gs : gs[j].path # <<>>}}
PathIn(gs, id) == CHOOSE path \in PathsOf(gs) : path.id = id

(***************************************************************************)
(* C24: a path that a pass creates starts with stroke-dashoffset at its    *)
(* total length, and when its draw-in ends stroke-dashoffset is 0.  A      *)
(* draw-in of duration 0 never shows a length in between: the first frame  *)
(* that touches the path reveals it fully.                                 *)
(***************************************************************************)
C24_DrawInStartsHiddenEndsShown ==
    [][/\ \A id \in PathIds(groups') \ PathIds(groups) :
             /\ PathIn(groups', id).dasharray = "len"
             /\ PathIn(groups', id).dashoffset = "len"
             /\ PathIn(groups', id).dur = Duration(transitionTime)
       /\ \A id \in PathIds(groups') \cap PathIds(groups) :
             /\ (PathIn(groups, id).trans = "drawin" /\ PathIn(groups', id).trans = "none")
                    => PathIn(groups', id).dashoffset = "zero"
             /\ (\/ PathIn(groups, id).trans = "drawin" /\ PathIn(groups, id).dur = 0
                 \/ PathIn(groups, id).prev = <<0>>)
                    => PathIn(groups', id).dashoffset # "part"]_vars

\* a draw-in has run to its end
C24_DrawnIn ==
    \E path \in PathsOf(groups) :
        path.trans = "none" /\ path.dasharray = "len" /\ path.dashoffset = "zero"

\* a dash pattern as long as the path, shifted by part or all of its length
HidesLine(path) == path.dasharray = "len" /\ path.dashoffset \in {"len", "part"}

(***************************************************************************)
(* C25: a pass that updates an existing path removes stroke-dasharray and  *)
(* stroke-dashoffset from it, and no path that has settled (no transition  *)
(* scheduled on it) carries a dash state that hides part of its line, also *)
(* when the update came while the draw-in was still running.               *)
(***************************************************************************)
C25_UpdateClearsDash ==
    [][/\ (outcome' = "ok" /\ chart)
             => \A id \in PathIds(groups') \cap PathIds(groups) :
                   /\ PathIn(groups', id).dasharray = "none"
                   /\ PathIn(groups', id).dashoffset = "none"
       /\ \A path \in PathsOf(groups') :
             (path.trans = "none" /\ path.prev = <<>>) => ~HidesLine(path)]_vars

\* an update caught a draw-in mid-way, and the path has settled
C25_SettledAfterInterruptedDrawIn ==
    \E path \in PathsOf(groups) :
        /\ path.trans = "none" /\ path.prev = <<>>
        /\ path.dasharray = "none" /\ path.dashoffset = "part"

\* every legend swatch has the fill that the path of its label has as stroke
SwatchMatchesStroke(gs, ls) ==
    \A i \in DOMAIN ls : \A j \in DOMAIN gs :
        (ls[i].label = gs[j].label /\ gs[j].path # <<>>)
           => ls[i].fill = gs[j].path[1].stroke

\* a completed pass gives every label the color scale knew the color it had
KeepsColors ==
    \A i \in DOMAIN legend' :
        (series[i].color = 0 /\ IndexOf(colorDomain, legend'[i].label, 1) # 0)
           => legend'[i].fill = ScaleColor(colorDomain, legend'[i].label)

C27_RenameReleasesColor ==
    [][\A k \in DOMAIN series :
          (/\ outcome' = "ok" /\ Rendered
           /\ Len(series') = Len(series) /\ k \in DOMAIN series'
           /\ series[k].color = 0 /\ series'[k].color = 0
           /\ series'[k].label # series[k].label
           /\ \A j \in DOMAIN series' : series'[j].label # series[k].label
           /\ Render)
          => /\ IndexOf(colorDomain', series[k].label, 1) = 0
             /\ IndexOf(colorDomain', series'[k].label, 1) # 0]_vars

\* the surface as a completed pass over the current inputs leaves it when
\* nothing was rendered on it before: its axis titles
FreshLabels == renderYAxisLabel(renderXAxisLabel(NoLabels))

(***************************************************************************)
(* C28: what a completed pass leaves on the surface depends on the current *)
(* inputs only, not on what was rendered before.  For the axis titles:     *)
(* after every completed pass, g.labels holds what the pass leaves on a    *)
(* fresh surface (no title text for an empty title), also when an earlier  *)
(* pass rendered a non-empty title.                                        *)
(***************************************************************************)
C28_TitlesAsOnFreshSurface ==
    [][(outcome' = "ok" /\ chart) => labels' = FreshLabels]_vars

(***************************************************************************)
(* C29: no pointer handler throws.  Neither a hover-on or hover-off on a   *)
(* marker nor the delayed hide callback throws, also when no tooltip was   *)
(* configured or the tooltip setter refused its argument.                  *)
(***************************************************************************)
C29_HandlersNeverThrow == tooltipCall # "throw"

(***************************************************************************)
(* C30: a new element is static by default.  As long as its is-static      *)
(* property is left as the constructor set it, a render pass of the        *)
(* element (#renderChart) attaches no cursor tracking to a surface that    *)
(* has none.                                                               *)
(***************************************************************************)
C30_StaticByDefault ==
    [][(~listening /\ renderChart) => ~listening']_vars

(***************************************************************************)
(* C32: after every render pass that completes there is exactly one series *)
(* group, holding exactly one path, and exactly one legend entry per entry *)
(* of series[], in the order of series[]; legend entry i (counted from 0)  *)
(* sits at the offset i * itemWidth, whatever was rendered before.         *)
(***************************************************************************)
C32_OneGroupPathEntryPerSeries ==
    [][(outcome' = "ok" /\ Render)
          => /\ LabelsOf(groups') = LabelsOf(series')
             /\ LabelsOf(legend') = LabelsOf(series')
             /\ Cardinality(GroupIds(groups')) = Len(series')
             /\ Cardinality(PathIds(groups')) = Len(series')
             /\ Cardinality(LegendIds(legend')) = Len(series')
             /\ \A i \in DOMAIN series' :
                   /\ Len(groups'[i].path) = 1
                   /\ legend'[i].tx = (i - 1) * itemWidth]_vars

\* a pass over fewer series than the surface showed, in another order
C32_FewerAfterMore ==
    /\ outcome = "ok" /\ Len(series) = 1 /\ Len(groups) = 1 /\ Len(legend) = 1
    /\ groups[1].label = series[1].label
    /\ groups[1].path[1].label # groups[1].label
    /\ Len(colorDomain) > Len(series)

(***************************************************************************)
(* C33: after every render pass that completes, the x (y) gridlines are as *)
(* many as the ticks of the current time (value) scale for the configured  *)
(* tick count, each one at its tick's coordinate and spanning the full     *)
(* range of the other axis; no gridline of an earlier pass remains.        *)
(***************************************************************************)
C33_GridlinesAreTicks ==
    [][(outcome' = "ok" /\ chart)
          => LET xt == TimeTicks(xScale'.d0, xScale'.d1, xTicks)
                 yt == LinearTicks10(yScale'.d0, yScale'.d1, yTicks)
             IN /\ Len(xGrid') = Len(xt)
                /\ Len(yGrid') = Len(yt)
                /\ \A i \in DOMAIN xGrid' :
                      /\ xGrid'[i].x1 = ScalePx(xScale', xt[i])
                      /\ xGrid'[i].x2 = xGrid'[i].x1
                      /\ {xGrid'[i].y1, xGrid'[i].y2} = {yScale'.r0, yScale'.r1}
                /\ \A i \in DOMAIN yGrid' :
                      /\ yGrid'[i].y1 = ScalePx10(yScale', yt[i])
                      /\ yGrid'[i].y2 = yGrid'[i].y1
                      /\ {yGrid'[i].x1, yGrid'[i].x2} = {xScale'.r0, xScale'.r1}]_vars

(***************************************************************************)
(* C34: after every handled pointer move inside the chart area the index   *)
(* resolved lies in [0, lastIndex] of the current data, and the guide line *)
(* and the one marker per series are at that row's coordinates under the   *)
(* current scales and data: skipping the re-render for an index equal to   *)
(* the previous one never leaves them at another row's coordinates or at   *)
(* coordinates of an older render pass.                                    *)
(***************************************************************************)
C34_CursorAtResolvedRow ==
    [][\A mouseX \in PointerXs :
          (/\ listening /\ LetsThrough(sinceLastMove) /\ Len(data) # 0
           /\ WithinChart(mouseX, PointerY)
           /\ throttledPointerMove(mouseX, PointerY))
          => \E row \in {data[ClosestIdx(mouseX) + 1]} :
                /\ lastCursorIdx' \in 0..(Len(data) - 1)
                /\ lastCursorIdx' = ClosestIdx(mouseX)
                /\ cursorLine' # <<>>
                /\ cursorLine'[1].x = ScaleVal(xScale, Read(row, xSerie)).px
                /\ cursorLine'[1].y1 = MarginTop
                /\ cursorLine'[1].y2 = innerHeight + MarginTop
                /\ Len(groups') = Len(series)
                /\ \A i \in DOMAIN series :
                      /\ groups'[i].point # <<>>
                      /\ groups'[i].point[1].cx = cursorLine'[1].x
                      /\ groups'[i].point[1].cy
                            = ScaleVal(yScale, Read(row, series[i].accessor)).px]_vars

(***************************************************************************)
(* SpecPoint: pointer events between setter calls and render passes.       *)
(***************************************************************************)
NextPoint ==
    \/ \E f \in {<<SA>>, <<SB, SA>>} : chartSeries(f)
    \/ chartData(GoodData(2))
    \/ chartXSerie("t")
    \/ chartColorScale("ordinal")
    \/ Resize(SmallSize)
    \/ chartTooltip("tip")
    \/ chart
    \/ \E mouseX \in {MarginLeft - 1, MarginLeft} : throttledPointerMove(mouseX, PointerY)
    \/ handleClosestPointOver(1)
    \/ handleClosestPointOut(1)
    \/ \E timer \in timers : hideTooltip(timer)
    \/ Tick(LongAgo)

SpecPoint == Init /\ [][NextPoint]_vars

\* a pointermove, pointerover or pointerout reaches its listener
PointerEvent ==
    /\ listening
    /\ \/ \E mouseX \in HoverXs : throttledPointerMove(mouseX, PointerY)
       \/ \E i \in 1..MaxSeries : handleClosestPointOver(i)
       \/ \E i \in 1..MaxSeries : handleClosestPointOut(i)

(***************************************************************************)
(* C35: the pointer handlers only read the scales and the configuration: a *)
(* pointer move, hover-on or hover-off leaves the scales, data, series[]   *)
(* and the series groups, series paths, legend entries, axes and gridlines *)
(* as they were, after any sequence of setter calls, passes and events.    *)
(***************************************************************************)
C35_HandlersOnlyRead ==
    [][PointerEvent
          => /\ UNCHANGED <<xScale, yScale, data, series>>
             /\ UNCHANGED <<legend, xAxis, yAxis, xGrid, yGrid>>
             /\ GroupIds(groups') = GroupIds(groups)
             /\ LabelsOf(groups') = LabelsOf(groups)
             /\ PathsOf(groups') = PathsOf(groups)]_vars

(***************************************************************************)
(* C36: in every reachable state the last-shown tooltip subject that the   *)
(* controller records is null exactly when the tooltip's most recent call  *)
(* was hide (or none was made yet), and is the shown datum exactly when    *)
(* the most recent call was show.                                          *)
(***************************************************************************)
C36_SubjectIffShown == (lastTooltipDatum = 0) <=> ~tooltipShown

(***************************************************************************)
(* SpecSet: the setters of one chart, called in any order with arguments   *)
(* they accept and arguments they refuse.                                  *)
(***************************************************************************)
NextSet ==
    \/ \E f \in {<<SA>>, <<SA, SB>>} : chartSeries(f)
    \/ chartData(GoodData(2))
    \/ \E a \in {"t", NotFn} : chartXSerie(a)
    \/ \E c \in {"ordinal", "notscale"} : chartColorScale(c)
    \/ \E bool \in {Bool(TRUE), Bool(FALSE), Undef} : chartIsStatic(bool)
    \/ \E time \in {Num(0), Num(250), Num(-1), Undef, NaNV} : chartTransitionTime(time)
    \/ \E label \in {"", "Time", NoLabel} : chartXAxisLabel(label)
    \/ \E label \in {"", "Value", NoLabel} : chartYAxisLabel(label)
    \/ \E tooltipInstance \in {"tip", "null"} : chartTooltip(tooltipInstance)

SpecSet == Init /\ [][NextSet]_vars

(***************************************************************************)
(* C39: every setter returns the chart; a setter called with an invalid    *)
(* argument leaves the stored configuration as it was; and after any       *)
(* sequence of setter calls transitionTime (as xTicks and yTicks, which    *)
(* are stored under the same test) is a number that is at least 0.         *)
(***************************************************************************)
C39_TransitionTimeNotNegative ==
    transitionTime.k = "num" /\ transitionTime.n >= 0

(***************************************************************************)
(* The <time-viz> component.  Its dates: DayLen units of the time value of *)
(* a Date make a day (the unit is the hour; the scales draw these time     *)
(* values as they draw all others), and a date string "YYYY-MM-DD" is the  *)
(* number of its day.                                                      *)
(*   date.toISOString().split("T")[0] is the UTC day of the time value;    *)
(*   new Date("YYYY-MM-DD") is that day's midnight in UTC;                 *)
(*   date.setHours(12, 0, 0, 0) moves the date to noon of its day in the   *)
(*   local time zone, which is zone hours ahead of UTC.                    *)
(***************************************************************************)
DayLen == 24
Noon == 12

toISOString(time) == FloorDiv(time, DayLen)
NewDate(day) == day * DayLen
setHours(time, zone) == FloorDiv(time + zone, DayLen) * DayLen + Noon - zone

\* the getter filteredSeries
filteredSeries ==
    LET Shown(s) ==
            /\ s.label \notin _hiddenSeries
            /\ _selectedSeries = "All" \/ s.label = _selectedSeries
    IN IF Len(_config.ySeries) = 0 THEN <<>> ELSE SelectSeq(_config.ySeries, Shown)

\* a variant of the range's ends that keeps the midnight new Date() gives
filteredDataWholeDays ==
    IF Len(_data) = 0 \/ _startDate = <<>> \/ _endDate = <<>> THEN <<>>
    ELSE LET startDate == NewDate(_startDate[1])
             endDate == NewDate(_endDate[1]) + DayLen - 1
             InRange(row) ==
                 LET date == Read(row, _config.xSerie).n
                 IN date >= startDate /\ date <= endDate
         IN SelectSeq(_data, InRange)

\* the getter filteredData
filteredData ==
    IF Len(_data) = 0 \/ _startDate = <<>> \/ _endDate = <<>> THEN <<>>
    ELSE LET startDate == setHours(NewDate(_startDate[1]), tz)
             endDate == setHours(NewDate(_endDate[1]), tz)
             InRange(row) ==
                 LET date == Read(row, _config.xSerie).n
                 IN date >= startDate /\ date <= endDate
         IN SelectSeq(_data, InRange)

\* The chart of the next #renderChart is given filteredData and
\* filteredSeries: data and series are kept equal to the two getters while
\* the component is in charge.
Filtered ==
    /\ data' = filteredData'
    /\ series' = filteredSeries'
    /\ passes' = IF data' # data \/ series' # series THEN "changed" ELSE passes

compFrame ==
    UNCHANGED <<isStatic, transitionTime, xAxisLabel, yAxisLabel, tz, clickedItem,
                colorDomain, closureVars, size, surface, listening, outcome, hoverVars>>

\* the smallest and the largest element of a non-empty sequence of numbers
MathMin(f) == CHOOSE m \in {f[i] : i \in DOMAIN f} : \A i \in DOMAIN f : m <= f[i]
MathMax(f) == CHOOSE m \in {f[i] : i \in DOMAIN f} : \A i \in DOMAIN f : m >= f[i]

\* set config(cfg)
setConfig(cfg) ==
    /\ _config' = cfg
    /\ _data' = cfg.data
    /\ _selectedSeries' = "All"
    /\ _hiddenSeries' = {}
    /\ IF Len(cfg.data) # 0
       THEN LET dates == [i \in DOMAIN cfg.data |-> Read(cfg.data[i], cfg.xSerie).n]
            IN /\ _minDate' = <<toISOString(MathMin(dates))>>
               /\ _maxDate' = <<toISOString(MathMax(dates))>>
               /\ _startDate' = _minDate'
               /\ _endDate' = _maxDate'
       ELSE UNCHANGED dateVars
    /\ changedProperties' = changedProperties \cup {"_config"}
    /\ xSerie' = cfg.xSerie
    /\ colorScale' = "ordinal"
    /\ compFrame
    /\ Filtered

Changed(name, old, new) ==
    IF new # old THEN changedProperties \cup {name} ELSE changedProperties

handleSeriesChange(value) ==
    /\ value \in {"All"} \cup {_config.ySeries[i].label : i \in DOMAIN _config.ySeries}
    /\ _selectedSeries' = value
    /\ changedProperties' = Changed("_selectedSeries", _selectedSeries, value)
    /\ UNCHANGED <<_config, _data, _hiddenSeries, dateVars, xSerie, colorScale>>
    /\ compFrame
    /\ Filtered

handleStartDateChange(value) ==
    /\ _startDate' = value
    /\ changedProperties' = Changed("_startDate", _startDate, value)
    /\ UNCHANGED <<_config, _data, _selectedSeries, _hiddenSeries, _endDate, _minDate,
                   _maxDate, xSerie, colorScale>>
    /\ compFrame
    /\ Filtered

handleEndDateChange(value) ==
    /\ _endDate' = value
    /\ changedProperties' = Changed("_endDate", _endDate, value)
    /\ UNCHANGED <<_config, _data, _selectedSeries, _hiddenSeries, _startDate, _minDate,
                   _maxDate, xSerie, colorScale>>
    /\ compFrame
    /\ Filtered

handleResetDates ==
    /\ _startDate' = _minDate
    /\ _endDate' = _maxDate
    /\ changedProperties' =
          (IF _startDate' # _startDate THEN {"_startDate"} ELSE {})
             \cup (IF _endDate' # _endDate THEN {"_endDate"} ELSE {})
             \cup changedProperties
    /\ UNCHANGED <<_config, _data, _selectedSeries, _hiddenSeries, _minDate, _maxDate,
                   xSerie, colorScale>>
    /\ compFrame
    /\ Filtered

\* a click on the legend entry of a label: neither the chart nor the
\* component listens for it
legendClick(label) ==
    /\ \E i \in DOMAIN legend : legend[i].label = label
    /\ clickedItem' = label
    /\ UNCHANGED <<series, data, xSerie, colorScale, isStatic, transitionTime, xAxisLabel,
                   yAxisLabel, _config, _data, _selectedSeries, _hiddenSeries, dateVars,
                   changedProperties, tz, colorDomain, closureVars, size, surface,
                   listening, outcome, passes, hoverVars>>

\* updated(changedProperties), and the #renderChart it calls
updated ==
    /\ changedProperties # {}
    /\ changedProperties' = {}
    /\ IF Len(_data) # 0 /\ Len(_config.ySeries) # 0
       THEN createTimeVizChartCall
       ELSE UNCHANGED <<colorDomain, closureVars, size, surface, listening, outcome,
                        passes, hoverVars>>
    /\ UNCHANGED <<series, data, xSerie, colorScale, isStatic, transitionTime, xAxisLabel,
                   yAxisLabel, _config, _data, _selectedSeries, _hiddenSeries, dateVars,
                   tz, clickedItem>>

\* SpecComp: a page that sets the config and uses the controls
ConfigRows(times) == [i \in DOMAIN times |-> [Row(i) EXCEPT !.t = DateV(times[i])]]
Configs == {[data |-> ConfigRows(<<2, 30>>), xSerie |-> "t", ySeries |-> <<SA, SB>>]}
Zones == {-5, 0, 2}
Days == {<<0>>, <<1>>}

NextComp ==
    \/ \E cfg \in Configs : setConfig(cfg)
    \/ \E value \in {"All", "A"} : handleSeriesChange(value)
    \/ \E value \in Days : handleStartDateChange(value)
    \/ \E value \in Days : handleEndDateChange(value)
    \/ handleResetDates
    \/ legendClick("A")
    \/ updated
    \/ Resize(SmallSize)
    \/ changedProperties = {} /\ outcome = "ok"
          /\ throttledPointerMove(MarginLeft, PointerY)

InitComp == \E zone \in Zones : InitAt(zone)

SpecComp == InitComp /\ [][NextComp]_vars

(***************************************************************************)
(* C38: right after the config is set with rows, and again after Reset     *)
(* Dates, filteredData holds every row: the default range [min date, max   *)
(* date] leaves no row out, whatever the rows' time of day and the offset  *)
(* of the local time zone.                                                 *)
(***************************************************************************)
C38_DefaultRangeKeepsEveryRow ==
    [][(/\ (\E cfg \in Configs : setConfig(cfg)) \/ handleResetDates
        /\ Len(_data') # 0)
          => filteredData' = _data']_vars

(***************************************************************************)
(* C37: after every update of the component that a change of the selected *)
(* series or of the start or end date caused (on a surface that is laid    *)
(* out), the drawing shows exactly filteredSeries over filteredData; when  *)
(* the selection leaves no row or no series, no series path, legend entry  *)
(* or cursor of the earlier selection remains.                             *)
(***************************************************************************)
C37_DrawingShowsSelection ==
    [][(/\ changedProperties \cap {"_selectedSeries", "_startDate", "_endDate"} # {}
        /\ size # NoSize
        /\ updated)
          => /\ (Len(filteredData) = 0 \/ Len(filteredSeries) = 0)
                   => PathsOf(groups') = {} /\ legend' = <<>> /\ cursorLine' = <<>>
             /\ (Len(filteredData) # 0 /\ Len(filteredSeries) # 0)
                   => /\ outcome' = "ok"
                      /\ LabelsOf(groups') = LabelsOf(filteredSeries)
                      /\ LabelsOf(legend') = LabelsOf(filteredSeries)
                      /\ xScale' = NewXScale]_vars

(***************************************************************************)
(* C31: in interactive mode (is-static false) a click on a legend entry    *)
(* hides that series: it leaves filteredSeries, and with the update that   *)
(* follows the drawing; a click on the entry of a hidden series shows it   *)
(* again.                                                                  *)
(***************************************************************************)
C31_LegendClickToggles ==
    [][\A label \in {"A", "B"} :
          (~isStatic /\ legendClick(label))
          => /\ (label \in _hiddenSeries') = (label \notin _hiddenSeries)
             /\ label \in _hiddenSeries'
                   => \A i \in DOMAIN filteredSeries' : filteredSeries'[i].label # label
             /\ "_hiddenSeries" \in changedProperties']_vars

====
